---- MODULE Spec2Model ----
(***************************************************************************)
(* PytoWeb: the virtual-DOM differ (pytoweb/vdom.py), the render cache     *)
(* (pytoweb/components.py, ComponentCache) and the component lifecycle     *)
(* (pytoweb/components.py, Component; pytoweb/events.py, EventDelegate).   *)
(*                                                                         *)
(* The specifications share the variables:                                 *)
(*   SpecVdom   one call of VDOMDiffer.diff on a pair of bounded trees     *)
(*   SpecCache  sequences of get / set / clear on one ComponentCache,      *)
(*              with a clock that advances between calls                   *)
(*   SpecLife   sequences of add / mount / unmount on a few Components     *)
(*   SpecProp   the same with set_prop / set_state                         *)
(* Positions in Python lists are 0-based and are kept 0-based here; the    *)
(* element at Python index i of a sequence s is s[i + 1].                  *)
(***************************************************************************)
EXTENDS Integers, Sequences, FiniteSets, TLC

VARIABLES
    \* ---- vdom.py
    oldNode,      \* first argument of VDOMDiffer.diff
    newNode,      \* second argument of VDOMDiffer.diff
    vpc,          \* "call" before diff has run, "done" after it returned or raised
    patches,      \* the list diff returned (<<>> when it raised)
    raised,       \* "" or the name of the exception diff let escape
    \* ---- components.py, ComponentCache
    cache,        \* self._cache: the OrderedDict, oldest position first
    curMem,       \* self._current_memory
    now,          \* time.time()
    lastOp,       \* what the last call was, what it returned and what it evicted
    \* ---- components.py, Component
    children,     \* Component.children, per component
    mounted,      \* Component._mounted, per component
    destroyed,    \* Component._destroyed, per component
    handlers,     \* EventDelegate._handlers, per component and hook
    calls,        \* listener invocations made by the last operation, in order
    callFlags,    \* _mounted / _destroyed of every component at each invocation
    lifeOp,       \* the last operation and the component it was called on
    compProps,    \* Component.props, per component
    compState,    \* Component.state, per component
    lifeExc,      \* "" or the exception the last operation let reach its caller
    \* ---- vdom.py, VDOMRenderer
    renderArg,    \* the argument of VDOMRenderer.render_to_string
    rpc,          \* "call" before render_to_string has run, "done" after
    html,         \* the string render_to_string returned
    \* ---- components.py, ComponentCache called from two threads
    threads,      \* per thread: where it is in get / set, and its locals
    \* ---- events.py, one EventDelegate
    dHandlers,    \* EventDelegate._handlers
    dStart,       \* _handlers as it was when the last firing started
    dInvoked,     \* the handlers the last firing invoked, in order
    dOp,          \* the last operation on the delegate
    \* ---- async_components.py, ComponentCache
    aCache,       \* _cache and _access_times, one entry per key in insertion order
    aNow,         \* time.time()
    aOp,          \* the last operation on the cache and what it returned
    \* ---- state.py, one Store used from one thread
    sState,       \* the value _state holds at the path "a.b"
    sSubs,        \* _subscribers: the list of callbacks of each path
    sLock,        \* TRUE while _lock is held
    sNotified,    \* the callbacks the last set invoked, in order
    sOp           \* the last operation on the store and how it ended

vdomVars  == <<oldNode, newNode, vpc, patches, raised>>
cacheVars == <<cache, curMem, now, lastOp>>
lifeVars  == <<children, mounted, destroyed, handlers, calls, callFlags, lifeOp,
               compProps,
               compState, lifeExc>>
renderVars == <<renderArg, rpc, html>>
concVars  == <<threads>>
delegateVars == <<dHandlers, dStart, dInvoked, dOp>>
asyncVars == <<aCache, aNow, aOp>>
storeVars == <<sState, sSubs, sLock, sNotified, sOp>>
extraVars == <<concVars, delegateVars, asyncVars, storeVars>>
vars      == <<vdomVars, cacheVars, lifeVars, renderVars, extraVars>>

-----------------------------------------------------------------------------
(* Small helpers on sequences.                                             *)

Range(s) == {s[i] : i \in 1..Len(s)}

SeqsUpTo(S, n) == UNION {[1..k -> S] : k \in 0..n}

RECURSIVE SumSeq(_)
SumSeq(s) == IF s = <<>> THEN 0 ELSE Head(s) + SumSeq(Tail(s))

-----------------------------------------------------------------------------
(* VNode (vdom.py).  Every node is a record of one shape so that nodes of  *)
(* different kinds can sit in one list: kind "vnode" is a VNode, kind      *)
(* "text" is a str child (its text in the tag field), kind "none" is None. *)
(* props is the dict in insertion order: a sequence of <<key, value>>.     *)

MaxChildren == 2

Tags  == {"div", "span"}
Texts == {"x", "y"}

NoneNode == [kind |-> "none", tag |-> "", props |-> <<>>, children |-> <<>>]

Text(s) == [kind |-> "text", tag |-> s, props |-> <<>>, children |-> <<>>]

VNode(tag, props, kids) ==
    [kind |-> "vnode", tag |-> tag, props |-> props, children |-> kids]

IsVNode(n) == n.kind = "vnode"

PropsChoices ==
    { <<>>,
      << <<"id", "a">> >>,
      << <<"id", "b">> >>,
      << <<"id", "a">>, <<"class", "c">> >>,
      << <<"class", "c">>, <<"id", "a">> >> }

Kids == {Text(s) : s \in Texts} \cup {VNode("span", <<>>, <<Text("x")>>)}

Roots ==
    {VNode(t, p, c) : t \in Tags, p \in PropsChoices, c \in SeqsUpTo(Kids, MaxChildren)}

DiffInputs == Roots \cup {NoneNode}

\* dict lookups on the insertion-ordered props
PropKeys(p) == {p[i][1] : i \in 1..Len(p)}
PropGet(p, k) == (CHOOSE i \in 1..Len(p) : p[i][1] = k)
PropVal(p, k) == p[PropGet(p, k)][2]

\* a mutant of DictEq: the items are compared in insertion order
DictEqOrdered(p, q) == p = q

\* dict.__eq__: same number of items, and every key of one is in the other
\* with an equal value; insertion order plays no part
DictEq(p, q) ==
    /\ Len(p) = Len(q)
    /\ \A k \in PropKeys(p) : k \in PropKeys(q) /\ PropVal(p, k) = PropVal(q, k)

\* VNode.__eq__ (and str.__eq__ for text children): a str equals only the
\* same str; a VNode equals a VNode of the same tag, equal props and
\* element-wise equal children
RECURSIVE NodeEq(_, _)
NodeEq(a, b) ==
    IF a.kind # "vnode" \/ b.kind # "vnode"
    THEN a.kind = b.kind /\ a.tag = b.tag
    ELSE /\ a.tag = b.tag
         /\ DictEq(a.props, b.props)
         /\ Len(a.children) = Len(b.children)
         /\ \A i \in 1..Len(a.children) : NodeEq(a.children[i], b.children[i])

\* VNode defines __eq__ and no __hash__, so Python sets VNode.__hash__ to
\* None: hash(vnode) raises TypeError.  str is hashable.
Hashable(n) == n.kind = "text"

-----------------------------------------------------------------------------
(* Patches (vdom.py, the dict literals of diff and _diff_children).  One   *)
(* record shape; a key the Python dict does not have holds its default:    *)
(* index -1, node NoPatchNode, props <<>>.  A 'node' that is present and   *)
(* None is NoneNode.                                                       *)

NoPatchNode == [kind |-> "absent", tag |-> "", props |-> <<>>, children |-> <<>>]

NoneVal == "<None>"

Patch(type, index, node, props) ==
    [type |-> type, index |-> index, node |-> node, props |-> props]

Create(n)          == Patch("CREATE", -1, n, <<>>)
Remove             == Patch("REMOVE", -1, NoPatchNode, <<>>)
Replace(n)         == Patch("REPLACE", -1, n, <<>>)
PropsPatch(p)      == Patch("PROPS", -1, NoPatchNode, p)
ReplaceChild(i, n) == Patch("REPLACE_CHILD", i, n, <<>>)
RemoveChild(i)     == Patch("REMOVE_CHILD", i, NoPatchNode, <<>>)
InsertChild(j, n)  == Patch("INSERT_CHILD", j, n, <<>>)

-----------------------------------------------------------------------------
(* difflib.SequenceMatcher(None, a, b) as _diff_children uses it: no junk  *)
(* predicate, and the autojunk heuristic only applies to lists of 200 or   *)
(* more elements.  The matcher indexes the elements of b in a dict and     *)
(* looks every element of a up in it, so every element of both lists is    *)
(* hashed.                                                                 *)

\* a[i:i+k] == b[j:j+k], inside a[alo:ahi] and b[blo:bhi]
BlockMatches(a, b, i, j, k, ahi, bhi) ==
    /\ i + k <= ahi
    /\ j + k <= bhi
    /\ \A d \in 0..(k - 1) : a[i + d + 1] = b[j + d + 1]

BetterMatch(m, n) ==
    \/ m[3] > n[3]
    \/ m[3] = n[3] /\ m[1] < n[1]
    \/ m[3] = n[3] /\ m[1] = n[1] /\ m[2] < n[2]

\* find_longest_match: the longest matching block; of the longest ones the
\* one that starts earliest in a, and of those the one that starts earliest
\* in b; (alo, blo, 0) when nothing matches
FindLongestMatch(a, b, alo, ahi, blo, bhi) ==
    LET cands == {m \in (alo..(ahi - 1)) \X (blo..(bhi - 1)) \X (1..(ahi - alo)) :
                      BlockMatches(a, b, m[1], m[2], m[3], ahi, bhi)}
    IN  IF cands = {} THEN <<alo, blo, 0>>
        ELSE CHOOSE m \in cands : \A n \in cands \ {m} : BetterMatch(m, n)

\* the queue of get_matching_blocks followed by its sort(): the blocks left
\* of the longest match, the match, the blocks right of it
RECURSIVE MatchingBlocksIn(_, _, _, _, _, _)
MatchingBlocksIn(a, b, alo, ahi, blo, bhi) ==
    LET x == FindLongestMatch(a, b, alo, ahi, blo, bhi)
        i == x[1]
        j == x[2]
        k == x[3]
    IN  IF k = 0 THEN <<>>
        ELSE (IF alo < i /\ blo < j
              THEN MatchingBlocksIn(a, b, alo, i, blo, j) ELSE <<>>)
             \o <<x>>
             \o (IF i + k < ahi /\ j + k < bhi
                 THEN MatchingBlocksIn(a, b, i + k, ahi, j + k, bhi) ELSE <<>>)

\* the collapse loop of get_matching_blocks: cur is (i1, j1, k1)
RECURSIVE CollapseAdjacent(_, _)
CollapseAdjacent(cur, blocks) ==
    IF blocks = <<>>
    THEN IF cur[3] # 0 THEN <<cur>> ELSE <<>>
    ELSE LET nxt == Head(blocks)
         IN  IF cur[1] + cur[3] = nxt[1] /\ cur[2] + cur[3] = nxt[2]
             THEN CollapseAdjacent(<<cur[1], cur[2], cur[3] + nxt[3]>>, Tail(blocks))
             ELSE (IF cur[3] # 0 THEN <<cur>> ELSE <<>>)
                  \o CollapseAdjacent(nxt, Tail(blocks))

\* get_matching_blocks: the collapsed blocks and the sentinel (la, lb, 0)
GetMatchingBlocks(a, b) ==
    CollapseAdjacent(<<0, 0, 0>>, MatchingBlocksIn(a, b, 0, Len(a), 0, Len(b)))
        \o << <<Len(a), Len(b), 0>> >>

\* get_opcodes: the loop over the matching blocks, (i, j) the position
\* reached so far; an opcode is <<tag, i1, i2, j1, j2>>
RECURSIVE OpcodesFrom(_, _, _)
OpcodesFrom(blocks, i, j) ==
    IF blocks = <<>> THEN <<>>
    ELSE LET ai   == Head(blocks)[1]
             bj   == Head(blocks)[2]
             size == Head(blocks)[3]
             tag  == IF i < ai /\ j < bj THEN "replace"
                     ELSE IF i < ai THEN "delete"
                     ELSE IF j < bj THEN "insert"
                     ELSE ""
         IN  (IF tag # "" THEN << <<tag, i, ai, j, bj>> >> ELSE <<>>)
             \o (IF size # 0 THEN << <<"equal", ai, ai + size, bj, bj + size>> >> ELSE <<>>)
             \o OpcodesFrom(Tail(blocks), ai + size, bj + size)

GetOpcodes(a, b) == OpcodesFrom(GetMatchingBlocks(a, b), 0, 0)

-----------------------------------------------------------------------------
(* VDOMDiffer (vdom.py).  A call either returns its patch list or lets an  *)
(* exception escape: [raised |-> "", patches |-> ...] or                    *)
(* [raised |-> "TypeError", patches |-> <<>>].                              *)

Returned(ps) == [raised |-> "", patches |-> ps]
Raised(e)    == [raised |-> e, patches |-> <<>>]

\* _diff_props: changed or new keys in new_props order with the new value,
\* then removed keys in old_props order with None; a sequence of <<key, value>>
DiffProps(oldProps, newProps) ==
    LET changed == SelectSeq(newProps,
                       LAMBDA kv : \/ kv[1] \notin PropKeys(oldProps)
                                   \/ PropVal(oldProps, kv[1]) # kv[2])
        removed == SelectSeq(oldProps, LAMBDA kv : kv[1] \notin PropKeys(newProps))
    IN  changed \o [n \in 1..Len(removed) |-> <<removed[n][1], NoneVal>>]

\* the patches _diff_children appends for one opcode
OpcodePatches(op, newChildren) ==
    LET i1 == op[2]
        i2 == op[3]
        j1 == op[4]
        j2 == op[5]
    IN  CASE op[1] = "replace" ->
               [n \in 1..(i2 - i1) |->
                   ReplaceChild(i1 + n - 1,
                                IF n - 1 < j2 - j1 THEN newChildren[j1 + n] ELSE NoneNode)]
          [] op[1] = "delete" ->
               [n \in 1..(i2 - i1) |-> RemoveChild(i1 + n - 1)]
          [] op[1] = "insert" ->
               [n \in 1..(j2 - j1) |-> InsertChild(j1 + n - 1, newChildren[j1 + n])]
          [] OTHER -> <<>>

RECURSIVE OpcodesPatches(_, _)
OpcodesPatches(ops, newChildren) ==
    IF ops = <<>> THEN <<>>
    ELSE OpcodePatches(Head(ops), newChildren) \o OpcodesPatches(Tail(ops), newChildren)

\* _diff_children: TypeError from the matcher when a child is unhashable
DiffChildren(oldChildren, newChildren) ==
    IF \E n \in Range(oldChildren) \cup Range(newChildren) : ~Hashable(n)
    THEN Raised("TypeError")
    ELSE Returned(OpcodesPatches(GetOpcodes(oldChildren, newChildren), newChildren))

\* a mutant of Diff: the tag comparison is skipped, nodes of different
\* tags are diffed like nodes of the same tag
DiffNoTagCheck(old, new) ==
    IF old.kind = "none" THEN Returned(<<Create(new)>>)
    ELSE IF new.kind = "none" THEN Returned(<<Remove>>)
    ELSE IF NodeEq(old, new) THEN Returned(<<>>)
    ELSE LET pp == DiffProps(old.props, new.props)
             cp == DiffChildren(old.children, new.children)
         IN  IF cp.raised # "" THEN cp
             ELSE Returned((IF pp # <<>> THEN <<PropsPatch(pp)>> ELSE <<>>) \o cp.patches)

\* a mutant of Diff: the None tests are taken in the wrong order of roles
DiffSwappedNone(old, new) ==
    IF old.kind = "none" THEN Returned(<<Remove>>)
    ELSE IF new.kind = "none" THEN Returned(<<Create(old)>>)
    ELSE Returned(<<>>)

\* VDOMDiffer.diff
Diff(old, new) ==
    IF old.kind = "none" THEN Returned(<<Create(new)>>)
    ELSE IF new.kind = "none" THEN Returned(<<Remove>>)
    ELSE IF NodeEq(old, new) THEN Returned(<<>>)
    ELSE IF old.tag # new.tag THEN Returned(<<Replace(new)>>)
    ELSE LET pp == DiffProps(old.props, new.props)
             cp == DiffChildren(old.children, new.children)
         IN  IF cp.raised # "" THEN cp
             ELSE Returned((IF pp # <<>> THEN <<PropsPatch(pp)>> ELSE <<>>) \o cp.patches)

-----------------------------------------------------------------------------
(* ComponentCache (components.py).  _max_size, _max_memory and _ttl are    *)
(* plain attributes of the singleton (100 entries, 100 MB and 300 s as     *)
(* constructed); the model runs the same code with small settings.         *)
(* An entry of the OrderedDict is [key, value, ts, setAt]: ts is the       *)
(* timestamp of the stored tuple, setAt records the time of the set call   *)
(* that inserted the entry (kept only to state properties; the code never  *)
(* reads it).                                                              *)

MaxSize   == 2
MaxMemory == 3
Ttl       == 2

MaxTime == Ttl + 1

Keys == {"k1", "k2", "k3"}

\* cached values: two that fit and one larger than the memory limit
Values == {"small", "large", "huge"}

NoValue == "None"

\* sys.getsizeof(value)
SizeOf(v) ==
    CASE v = "small" -> 1
      [] v = "large" -> 2
      [] v = "huge"  -> MaxMemory + 1
      [] OTHER       -> 0

Entry(k, v, t, s) == [key |-> k, value |-> v, ts |-> t, setAt |-> s]

CacheKeys(c) == {c[i].key : i \in 1..Len(c)}

\* self._cache[key]
EntryOf(c, k) == c[CHOOSE i \in 1..Len(c) : c[i].key = k]

\* self._cache.pop(key)
Without(c, k) == SelectSeq(c, LAMBDA e : e.key # k)

SumSizes(c) == SumSeq([i \in 1..Len(c) |-> SizeOf(c[i].value)])

\* the outcome of a call: the new dict and memory counter, the value
\* returned (NoValue for None), the entries the eviction loop removed and
\* whether the value was stored
Outcome(c, mem, ret, evicted, stored) ==
    [cache |-> c, mem |-> mem, ret |-> ret, evicted |-> evicted, stored |-> stored]

\* a mutant of CacheGet: a hit returns the value without move_to_end and
\* without rewriting the timestamp
CacheGetNoRefresh(c, mem, key, t) ==
    IF key \notin CacheKeys(c) THEN Outcome(c, mem, NoValue, <<>>, FALSE)
    ELSE LET e == EntryOf(c, key)
         IN  IF t - e.ts > Ttl
             THEN Outcome(Without(c, key), mem - SizeOf(e.value), NoValue, <<>>, FALSE)
             ELSE Outcome(c, mem, e.value, <<>>, FALSE)

\* a mutant of CacheGet: a hit rewrites the timestamp in place, without
\* move_to_end
CacheGetNoMove(c, mem, key, t) ==
    IF key \notin CacheKeys(c) THEN Outcome(c, mem, NoValue, <<>>, FALSE)
    ELSE LET e == EntryOf(c, key)
         IN  IF t - e.ts > Ttl
             THEN Outcome(Without(c, key), mem - SizeOf(e.value), NoValue, <<>>, FALSE)
             ELSE Outcome([i \in 1..Len(c) |->
                              IF c[i].key = key THEN Entry(key, e.value, t, e.setAt)
                              ELSE c[i]],
                          mem, e.value, <<>>, FALSE)

\* ComponentCache.get at time t
CacheGet(c, mem, key, t) ==
    IF key \notin CacheKeys(c) THEN Outcome(c, mem, NoValue, <<>>, FALSE)
    ELSE LET e == EntryOf(c, key)
         IN  IF t - e.ts > Ttl
             THEN Outcome(Without(c, key), mem - SizeOf(e.value), NoValue, <<>>, FALSE)
             ELSE Outcome(Append(Without(c, key), Entry(key, e.value, t, e.setAt)),
                          mem, e.value, <<>>, FALSE)

\* a mutant of MustEvict: the count test is off by one
MustEvictOffByOne(c, mem, size, t) ==
    /\ c # <<>>
    /\ \/ Len(c) > MaxSize
       \/ mem + size > MaxMemory
       \/ t - c[1].ts > Ttl

\* a mutant of MustEvict: the memory test is missing
MustEvictNoMemory(c, mem, size, t) ==
    /\ c # <<>>
    /\ \/ Len(c) >= MaxSize
       \/ t - c[1].ts > Ttl

\* the condition of the while loop of set
MustEvict(c, mem, size, t) ==
    /\ c # <<>>
    /\ \/ Len(c) >= MaxSize
       \/ mem + size > MaxMemory
       \/ t - c[1].ts > Ttl

\* a mutant of EvictLoop: the entry popped is the last one of the dict (the
\* most recently used) instead of the first
RECURSIVE EvictLoopNewest(_, _, _, _, _)
EvictLoopNewest(c, mem, size, t, evicted) ==
    IF MustEvict(c, mem, size, t)
    THEN EvictLoopNewest(SubSeq(c, 1, Len(c) - 1), mem - SizeOf(c[Len(c)].value),
                         size, t, Append(evicted, c[Len(c)]))
    ELSE [cache |-> c, mem |-> mem, evicted |-> evicted]

\* the while loop of set: the first entry is popped while MustEvict holds;
\* the result is the remaining dict, the memory counter and what was removed
RECURSIVE EvictLoop(_, _, _, _, _)
EvictLoop(c, mem, size, t, evicted) ==
    IF MustEvict(c, mem, size, t)
    THEN EvictLoop(Tail(c), mem - SizeOf(c[1].value), size, t, Append(evicted, c[1]))
    ELSE [cache |-> c, mem |-> mem, evicted |-> evicted]

\* a mutant of CacheSet: the size test comes after the old entry was popped
\* and the cleaning loop has run
CacheSetLateReject(c, mem, key, value, t) ==
    LET size == SizeOf(value)
        c1   == Without(c, key)
        mem1 == IF key \in CacheKeys(c)
                THEN mem - SizeOf(EntryOf(c, key).value) ELSE mem
        l    == EvictLoop(c1, mem1, size, t, <<>>)
    IN  IF size > MaxMemory THEN Outcome(l.cache, l.mem, NoValue, l.evicted, FALSE)
        ELSE Outcome(Append(l.cache, Entry(key, value, t, t)),
                     l.mem + size, NoValue, l.evicted, TRUE)

\* ComponentCache.set at time t
CacheSet(c, mem, key, value, t) ==
    LET size == SizeOf(value)
    IN  IF size > MaxMemory THEN Outcome(c, mem, NoValue, <<>>, FALSE)
        ELSE LET c1   == Without(c, key)
                 mem1 == IF key \in CacheKeys(c)
                         THEN mem - SizeOf(EntryOf(c, key).value) ELSE mem
                 l    == EvictLoop(c1, mem1, size, t, <<>>)
             IN  Outcome(Append(l.cache, Entry(key, value, t, t)),
                         l.mem + size, NoValue, l.evicted, TRUE)

\* lastOp: the call just made; after a tick of the clock it is the tick
Op(op, key, value, o) ==
    [op |-> op, key |-> key, value |-> value,
     ret |-> o.ret, evicted |-> o.evicted, stored |-> o.stored]

NoOutcome == Outcome(<<>>, 0, NoValue, <<>>, FALSE)

-----------------------------------------------------------------------------
(* Component and EventDelegate (components.py, events.py).  A listener is  *)
(* a name; the listener "boom" raises when it is invoked, "ok" returns.    *)
(* calls is the list of listener invocations the last operation made, each *)
(* [comp, hook, listener], in the order they were made.                    *)
(*                                                                         *)
(* An operation threads a state st through its statements:                 *)
(*   [mounted, destroyed, props, state, calls, seen, exc]                  *)
(* seen[i] is the flags of the components when calls[i] was made.          *)
(* exc is "" while control flows normally and the name of the exception    *)
(* while one is in flight: every statement is skipped while exc # "",      *)
(* until an except clause takes the exception.                             *)

Comps == {"c1", "c2", "c3"}

Hooks == {"before_mount", "mounted", "before_update", "updated",
          "before_destroy", "destroyed", "error",
          "state_change", "prop_change"}

Listeners == {"ok", "boom"}

ListenerLists == {<<>>, <<"ok">>, <<"ok", "boom">>, <<"boom", "ok">>}

\* what the listener does when it is invoked
Raises(l) == l = "boom"

Call(c, hook, l) == [comp |-> c, hook |-> hook, listener |-> l]

\* what a listener invoked in the state st finds in the flags of the
\* components
Flags(st) == [mounted |-> st.mounted, destroyed |-> st.destroyed]

\* a mutant of Invoke: the try/except around the handler call is missing
InvokeNoCatch(c, hook, l, st) ==
    [st EXCEPT !.calls = Append(@, Call(c, hook, l)),
               !.seen = Append(@, Flags(st)),
               !.exc = IF Raises(l) THEN "RuntimeError" ELSE ""]

\* the body of the loop of EventDelegate.__call__: the handler is called
\* inside try/except Exception, which logs what the handler raised
Invoke(c, hook, l, st) ==
    [st EXCEPT !.calls = Append(@, Call(c, hook, l)),
               !.seen = Append(@, Flags(st)),
               !.exc = ""]

\* the loop "for handler in self._handlers" of EventDelegate.__call__
RECURSIVE InvokeEach(_, _, _, _)
InvokeEach(c, hook, hs, st) ==
    IF hs = <<>> \/ st.exc # "" THEN st
    ELSE InvokeEach(c, hook, Tail(hs), Invoke(c, hook, Head(hs), st))

\* EventDelegate.__call__ for the delegate `hook` of component c
Fire(c, hook, st) ==
    IF st.exc # "" THEN st ELSE InvokeEach(c, hook, handlers[c][hook], st)

\* the clause "except Exception as e: ... self.on_error(self, e)" that closes
\* every operation of Component
OnError(c, st) ==
    IF st.exc = "" THEN st ELSE Fire(c, "error", [st EXCEPT !.exc = ""])

\* a mutant of MountGuard: the wrong flag is tested
MountGuardDestroyed(c, st) == ~st.destroyed[c]

\* the test that opens mount()
MountGuard(c, st) == ~st.mounted[c]

\* a mutant of UnmountGuard: the _mounted test is missing
UnmountGuardNoMounted(c, st) == ~st.destroyed[c]

\* the test that opens unmount()
UnmountGuard(c, st) == st.mounted[c] /\ ~st.destroyed[c]

\* the assignment "self._mounted = True"
SetMounted(c, st) ==
    IF st.exc # "" THEN st ELSE [st EXCEPT !.mounted[c] = TRUE]

\* the assignments "self._mounted = False; self._destroyed = True"
SetDestroyed(c, st) ==
    IF st.exc # "" THEN st
    ELSE [st EXCEPT !.mounted[c] = FALSE, !.destroyed[c] = TRUE]

RECURSIVE ComponentMount(_, _)
RECURSIVE MountEach(_, _)

\* the loop "for child in self.children: child.mount()"
MountEach(kids, st) ==
    IF kids = <<>> \/ st.exc # "" THEN st
    ELSE MountEach(Tail(kids), ComponentMount(Head(kids), st))

\* a mutant of ComponentMount: the mounted listeners are invoked before the
\* children are mounted
ComponentMountHookFirst(c, st) ==
    IF MountGuard(c, st)
    THEN LET s1 == Fire(c, "before_mount", st)
             s2 == SetMounted(c, s1)
             s3 == Fire(c, "mounted", s2)
         IN  OnError(c, MountEach(children[c], s3))
    ELSE st

\* Component.mount
ComponentMount(c, st) ==
    IF MountGuard(c, st)
    THEN LET s1 == Fire(c, "before_mount", st)
             s2 == SetMounted(c, s1)
             s3 == MountEach(children[c], s2)
         IN  OnError(c, Fire(c, "mounted", s3))
    ELSE st

RECURSIVE ComponentUnmount(_, _)
RECURSIVE UnmountEach(_, _)

\* the loop "for child in self.children: child.unmount()"
UnmountEach(kids, st) ==
    IF kids = <<>> \/ st.exc # "" THEN st
    ELSE UnmountEach(Tail(kids), ComponentUnmount(Head(kids), st))

\* a mutant of ComponentUnmount: the flags are set after the children were
\* unmounted
ComponentUnmountFlagsLast(c, st) ==
    IF UnmountGuard(c, st)
    THEN LET s1 == Fire(c, "before_destroy", st)
             s2 == UnmountEach(children[c], s1)
             s3 == SetDestroyed(c, s2)
         IN  OnError(c, Fire(c, "destroyed", s3))
    ELSE st

\* Component.unmount
ComponentUnmount(c, st) ==
    IF UnmountGuard(c, st)
    THEN LET s1 == Fire(c, "before_destroy", st)
             s2 == SetDestroyed(c, s1)
             s3 == UnmountEach(children[c], s2)
         IN  OnError(c, Fire(c, "destroyed", s3))
    ELSE st

\* the mutant of UpdateGuard: _update runs whatever the flags are
UpdateGuardAlways(c, st) == TRUE

\* the test that opens _update()
UpdateGuard(c, st) == st.mounted[c] /\ ~st.destroyed[c]

\* Component._update
ComponentUpdate(c, st) ==
    IF st.exc # "" THEN st
    ELSE IF UpdateGuard(c, st)
    THEN OnError(c, Fire(c, "updated", Fire(c, "before_update", st)))
    ELSE st

\* ---- props and state: one dict per component, a function from the keys
\* to the stored value, Absent for a key the dict does not hold.  Python's
\* None is NoneVal.
PropNames == {"title"}

PropValues == {NoneVal, "a", "b"}

Absent == "<absent>"

EmptyDict == [k \in PropNames |-> Absent]

\* dict.get(key): None for a key the dict does not hold
DictGet(d, key) == IF d[key] = Absent THEN NoneVal ELSE d[key]

\* a mutant of ValueChanged: the comparison is dropped
ValueChangedAlways(old, value) == TRUE

\* the test "if old_value != value"
ValueChanged(old, value) == old # value

\* Component.set_prop
ComponentSetProp(c, key, value, st) ==
    LET old == DictGet(st.props[c], key)
    IN  IF ValueChanged(old, value)
        THEN LET s1 == [st EXCEPT !.props[c][key] = value]
                 s2 == Fire(c, "prop_change", s1)
             IN  OnError(c, ComponentUpdate(c, s2))
        ELSE st

\* Component.set_state
ComponentSetState(c, key, value, st) ==
    LET old == DictGet(st.state[c], key)
    IN  IF ValueChanged(old, value)
        THEN LET s1 == [st EXCEPT !.state[c][key] = value]
                 s2 == Fire(c, "state_change", s1)
             IN  OnError(c, ComponentUpdate(c, s2))
        ELSE st

\* the components that have c in their children list
ParentsOf(c) == {p \in Comps : c \in Range(children[p])}

RECURSIVE AncestorsWithin(_, _)
AncestorsWithin(c, n) ==
    IF n = 0 THEN {}
    ELSE ParentsOf(c) \cup UNION {AncestorsWithin(p, n - 1) : p \in ParentsOf(c)}

Ancestors(c) == AncestorsWithin(c, Cardinality(Comps))

LifeOp(op, c, arg) == [op |-> op, comp |-> c, arg |-> arg]

-----------------------------------------------------------------------------
(* VDOMRenderer (vdom.py).  The renderer builds Python strings; a string   *)
(* it only formats or compares (a tag, a text child, its own output) is a  *)
(* TLA+ string.  A string it looks into (a prop key, for startswith; a     *)
(* prop value, for replace) is the sequence of its pieces: a key is the    *)
(* sequence of its characters, a value is cut so that every double quote   *)
(* is a piece of its own.  A prop value is a record [type, pieces, items]: *)
(* a str, True, False, None, a list of strs or a dict of strs.             *)

PyStr(pieces) == [type |-> "str", pieces |-> pieces, items |-> <<>>]
PyTrue        == [type |-> "True", pieces |-> <<>>, items |-> <<>>]
PyFalse       == [type |-> "False", pieces |-> <<>>, items |-> <<>>]
PyNone        == [type |-> "None", pieces |-> <<>>, items |-> <<>>]
PyList(items) == [type |-> "list", pieces |-> <<>>, items |-> items]
PyDict(items) == [type |-> "dict", pieces |-> <<>>, items |-> items]

\* ''.join(pieces)
RECURSIVE Join(_)
Join(pieces) == IF pieces = <<>> THEN "" ELSE Head(pieces) \o Join(Tail(pieces))

\* sep.join(strs), on sequences of pieces
RECURSIVE JoinWith(_, _)
JoinWith(sep, strs) ==
    IF strs = <<>> THEN <<>>
    ELSE IF Len(strs) = 1 THEN strs[1]
    ELSE strs[1] \o <<sep>> \o JoinWith(sep, Tail(strs))

\* the prop keys the inputs use
KeyId      == <<"i", "d">>
KeySrc     == <<"s", "r", "c">>
KeyTitle   == <<"t", "i", "t", "l", "e">>
KeyHidden  == <<"h", "i", "d", "d", "e", "n">>
KeyClass   == <<"c", "l", "a", "s", "s">>
KeyStyle   == <<"s", "t", "y", "l", "e">>
KeyOnClick == <<"o", "n", "c", "l", "i", "c", "k">>

VoidElements ==
    {"area", "base", "br", "col", "embed", "hr", "img", "input",
     "link", "meta", "param", "source", "track", "wbr"}

\* VDOMRenderer._get_pooled_string: the pool maps a string to itself, so
\* the call returns its argument whatever the pool holds
GetPooledString(s) == s

\* key.startswith('on')
StartsWithOn(key) == Len(key) >= 2 /\ key[1] = "o" /\ key[2] = "n"

\* s.replace('"', "&quot;")
ReplaceQuote(pieces) ==
    [i \in 1..Len(pieces) |-> IF pieces[i] = "\"" THEN "&quot;" ELSE pieces[i]]

\* the value _props_to_string writes for the pair (key, value): the event
\* shim for an on-prefixed key, the joined style dict, the joined class
\* list, the value itself otherwise.  (The inputs hold a dict only under
\* style and a list only under class, so str(value) is always taken of a
\* str.)
WrittenValue(key, value) ==
    IF StartsWithOn(key)
    THEN <<"pytoWeb.handleEvent('">> \o key \o <<"', this)">>
    ELSE IF key = KeyStyle /\ value.type = "dict"
    THEN JoinWith(";", [i \in 1..Len(value.items) |->
                           value.items[i][1] \o <<":">> \o value.items[i][2]])
    ELSE IF key = KeyClass /\ value.type = "list"
    THEN JoinWith(" ", value.items)
    ELSE value.pieces

\* the body of the loop of _props_to_string: what one pair appends to
\* attributes (nothing, or one attribute)
Attribute(key, value) ==
    IF value.type \in {"None", "False"} THEN <<>>
    ELSE IF value.type = "True" THEN << Join(key) >>
    ELSE << Join(key) \o "=\"" \o Join(ReplaceQuote(WrittenValue(key, value))) \o "\"" >>

\* the loop of _props_to_string
RECURSIVE Attributes(_)
Attributes(p) ==
    IF p = <<>> THEN <<>>
    ELSE Attribute(p[1][1], p[1][2]) \o Attributes(Tail(p))

\* ' '.join(attributes)
RECURSIVE SpaceJoin(_)
SpaceJoin(strs) ==
    IF strs = <<>> THEN ""
    ELSE IF Len(strs) = 1 THEN strs[1]
    ELSE strs[1] \o " " \o SpaceJoin(Tail(strs))

\* VDOMRenderer._props_to_string
PropsToString(p) ==
    IF p = <<>> THEN ""
    ELSE LET attributes == Attributes(p)
         IN  IF attributes # <<>> THEN " " \o SpaceJoin(attributes) ELSE ""

\* a mutant of IsVoid: no tag is a void element
IsVoidNever(tag) == FALSE

\* tag in void_elements
IsVoid(tag) == tag \in VoidElements

\* a mutant of CreateElement: the children are written last child first
RECURSIVE CreateElementReversed(_)
CreateElementReversed(vnode) ==
    IF vnode.kind = "text" THEN GetPooledString(vnode.tag)
    ELSE LET tag  == GetPooledString(vnode.tag)
             open == "<" \o tag \o
                     (IF vnode.props # <<>>
                      THEN GetPooledString(PropsToString(vnode.props)) ELSE "")
             kids == [i \in 1..Len(vnode.children) |->
                         CreateElementReversed(
                             vnode.children[Len(vnode.children) + 1 - i])]
         IN  IF IsVoid(tag) THEN GetPooledString(open \o "/>")
             ELSE GetPooledString(open \o ">" \o Join(kids) \o "</" \o tag \o ">")

\* VDOMRenderer.create_element; a str child is appended as str(child),
\* which is the child
RECURSIVE CreateElement(_)
CreateElement(vnode) ==
    IF vnode.kind = "text" THEN GetPooledString(vnode.tag)
    ELSE LET tag  == GetPooledString(vnode.tag)
             open == "<" \o tag \o
                     (IF vnode.props # <<>>
                      THEN GetPooledString(PropsToString(vnode.props)) ELSE "")
             kids == [i \in 1..Len(vnode.children) |->
                         IF IsVNode(vnode.children[i])
                         THEN CreateElement(vnode.children[i])
                         ELSE vnode.children[i].tag]
         IN  IF IsVoid(tag) THEN GetPooledString(open \o "/>")
             ELSE GetPooledString(open \o ">" \o Join(kids) \o "</" \o tag \o ">")

\* VDOMRenderer.render_to_string on a str or a VNode
RenderToString(v) ==
    IF v.kind = "text" THEN v.tag ELSE CreateElement(v)

\* ---- the inputs of the renderer
RenderTags == {"div", "span", "img", "br"}

RenderProps ==
    { <<>>,
      << <<KeyId, PyStr(<<"a">>)>> >>,
      << <<KeySrc, PyStr(<<"a.png">>)>> >>,
      << <<KeyId, PyStr(<<"a">>)>>, <<KeyClass, PyStr(<<"c">>)>> >>,
      << <<KeyClass, PyList(<< <<"c">>, <<"d">> >>)>>, <<KeyId, PyStr(<<"a">>)>> >>,
      << <<KeyHidden, PyTrue>>, <<KeyTitle, PyNone>>, <<KeyId, PyStr(<<"a">>)>> >>,
      << <<KeyHidden, PyFalse>> >>,
      << <<KeyOnClick, PyStr(<<"f">>)>>, <<KeyTitle, PyStr(<<"say ", "\"", "hi", "\"">>)>> >>,
      << <<KeyStyle, PyDict(<< <<<<"color">>, <<"red">>>>, <<<<"top">>, <<"0">>>> >>)>> >> }

RenderKids ==
    { Text("hello"),
      VNode("span", <<>>, <<Text("hello")>>),
      VNode("img", << <<KeySrc, PyStr(<<"a.png">>)>> >>, <<Text("x")>>),
      VNode("span", << <<KeyHidden, PyFalse>> >>, <<VNode("br", <<>>, <<>>), Text("y")>>) }

\* the void elements of HTML, each of them rendered with and without a child
VoidTags ==
    {"area", "base", "br", "col", "embed", "hr", "img", "input", "link",
     "meta", "param", "source", "track", "wbr"}

RenderInputs ==
    {VNode(t, p, c) : t \in RenderTags, p \in RenderProps,
                      c \in SeqsUpTo(RenderKids, MaxChildren)}
        \cup {VNode(t, << <<KeySrc, PyStr(<<"a.png">>)>> >>, c) :
                  t \in VoidTags, c \in {<<>>, <<Text("x")>>}}
        \cup {Text("hello")}

-----------------------------------------------------------------------------
(* SpecVdom: VDOMDiffer.diff is called once on a pair drawn from           *)
(* DiffInputs.                                                             *)

VdomIdle ==
    /\ oldNode = NoneNode
    /\ newNode = NoneNode
    /\ vpc = "done"
    /\ patches = <<>>
    /\ raised = ""

CacheIdle ==
    /\ cache = <<>>
    /\ curMem = 0
    /\ now = 0
    /\ lastOp = Op("init", "", NoValue, NoOutcome)

RenderIdle ==
    /\ renderArg = NoneNode
    /\ rpc = "done"
    /\ html = ""

LifeIdle ==
    /\ children = [c \in Comps |-> <<>>]
    /\ mounted = [c \in Comps |-> FALSE]
    /\ destroyed = [c \in Comps |-> FALSE]
    /\ handlers = [c \in Comps |-> [h \in Hooks |-> <<>>]]
    /\ calls = <<>>
    /\ callFlags = <<>>
    /\ lifeOp = LifeOp("init", "", "")
    /\ compProps = [c \in Comps |-> EmptyDict]
    /\ compState = [c \in Comps |-> EmptyDict]
    /\ lifeExc = ""

\* no thread is inside a call of the cache
ThreadIds == {"t1", "t2"}

IdleThread == [pc |-> "idle", key |-> "", value |-> NoValue, held |-> NoValue, t |-> 0]

ConcIdle == threads = [th \in ThreadIds |-> IdleThread]

\* EventDelegate.__init__
DelegateIdle ==
    /\ dHandlers = <<>>
    /\ dStart = <<>>
    /\ dInvoked = <<>>
    /\ dOp = "init"

\* async_components.ComponentCache.__init__
AsyncIdle ==
    /\ aCache = <<>>
    /\ aNow = 0
    /\ aOp = [op |-> "init", key |-> "", value |-> NoValue, ret |-> NoValue]

\* the paths callbacks are subscribed at: "a.b", the path set writes, and
\* its parent path
SubPaths == {"a", "a.b"}

\* Store.__init__
StoreIdle ==
    /\ sState = Absent
    /\ sSubs = [p \in SubPaths |-> <<>>]
    /\ sLock = FALSE
    /\ sNotified = <<>>
    /\ sOp = [op |-> "init", path |-> "", arg |-> "", ret |-> ""]

ExtraIdle == ConcIdle /\ DelegateIdle /\ AsyncIdle /\ StoreIdle

InitVdom ==
    /\ ExtraIdle
    /\ oldNode \in DiffInputs
    /\ newNode \in DiffInputs
    /\ vpc = "call"
    /\ patches = <<>>
    /\ raised = ""
    /\ CacheIdle
    /\ LifeIdle
    /\ RenderIdle

\* the call VDOMDiffer.diff(oldNode, newNode)
DiffCall ==
    /\ vpc = "call"
    /\ LET r == Diff(oldNode, newNode)
       IN  /\ patches' = r.patches
           /\ raised' = r.raised
    /\ vpc' = "done"
    /\ UNCHANGED <<oldNode, newNode, cacheVars, lifeVars, renderVars, extraVars>>

NextVdom == DiffCall

SpecVdom == InitVdom /\ [][NextVdom]_vars

-----------------------------------------------------------------------------
(* SpecRender: VDOMRenderer.render_to_string is called once on a value     *)
(* drawn from RenderInputs.                                                *)

InitRender ==
    /\ ExtraIdle
    /\ VdomIdle
    /\ CacheIdle
    /\ LifeIdle
    /\ renderArg \in RenderInputs
    /\ rpc = "call"
    /\ html = ""

\* the call VDOMRenderer.render_to_string(renderArg)
RenderCall ==
    /\ rpc = "call"
    /\ html' = RenderToString(renderArg)
    /\ rpc' = "done"
    /\ UNCHANGED <<renderArg, vdomVars, cacheVars, lifeVars, extraVars>>

NextRender == RenderCall

SpecRender == InitRender /\ [][NextRender]_vars

-----------------------------------------------------------------------------
(* SpecCache: get, set and clear are called in any order on one cache,     *)
(* and the clock advances between calls.                                   *)

InitCache ==
    /\ ExtraIdle
    /\ VdomIdle
    /\ CacheIdle
    /\ LifeIdle
    /\ RenderIdle

\* cache.get(key)
Get(key) ==
    /\ LET o == CacheGet(cache, curMem, key, now)
       IN  /\ cache' = o.cache
           /\ curMem' = o.mem
           /\ lastOp' = Op("get", key, NoValue, o)
    /\ UNCHANGED <<now, vdomVars, lifeVars, renderVars, extraVars>>

\* cache.set(key, value)
Set(key, value) ==
    /\ LET o == CacheSet(cache, curMem, key, value, now)
       IN  /\ cache' = o.cache
           /\ curMem' = o.mem
           /\ lastOp' = Op("set", key, value, o)
    /\ UNCHANGED <<now, vdomVars, lifeVars, renderVars, extraVars>>

\* cache.clear()
Clear ==
    /\ cache' = <<>>
    /\ curMem' = 0
    /\ lastOp' = Op("clear", "", NoValue, NoOutcome)
    /\ UNCHANGED <<now, vdomVars, lifeVars, renderVars, extraVars>>

\* time.time() moves on between two calls
Tick ==
    /\ now < MaxTime
    /\ now' = now + 1
    /\ lastOp' = Op("tick", "", NoValue, NoOutcome)
    /\ UNCHANGED <<cache, curMem, vdomVars, lifeVars, renderVars, extraVars>>

NextCache ==
    \/ \E k \in Keys : Get(k)
    \/ \E k \in Keys, v \in Values : Set(k, v)
    \/ Clear
    \/ Tick

SpecCache == InitCache /\ [][NextCache]_vars

-----------------------------------------------------------------------------
(* SpecLife: three freshly constructed components; on every component the  *)
(* same listeners are registered on every hook.  add_child builds a forest *)
(* (a component is added to one parent, and never below itself),           *)
(* remove_child takes a component out of a children list, mount and        *)
(* unmount are called on any component at any time.                        *)

InitLife ==
    /\ ExtraIdle
    /\ VdomIdle
    /\ CacheIdle
    /\ RenderIdle
    /\ children = [c \in Comps |-> <<>>]
    /\ mounted = [c \in Comps |-> FALSE]
    /\ destroyed = [c \in Comps |-> FALSE]
    /\ \E hs \in ListenerLists : handlers = [c \in Comps |-> [h \in Hooks |-> hs]]
    /\ calls = <<>>
    /\ callFlags = <<>>
    /\ lifeOp = LifeOp("init", "", "")
    /\ compProps = [c \in Comps |-> EmptyDict]
    /\ compState = [c \in Comps |-> EmptyDict]
    /\ lifeExc = ""

LifeState ==
    [mounted |-> mounted, destroyed |-> destroyed, props |-> compProps,
     state |-> compState, calls |-> <<>>, seen |-> <<>>, exc |-> ""]

\* what an operation that ended in st leaves behind
Leaves(st) ==
    /\ mounted' = st.mounted
    /\ destroyed' = st.destroyed
    /\ compProps' = st.props
    /\ compState' = st.state
    /\ calls' = st.calls
    /\ callFlags' = st.seen
    /\ lifeExc' = st.exc

\* p.add_child(c)
AddChild(p, c) ==
    /\ c # p
    /\ ParentsOf(c) = {}
    /\ c \notin Ancestors(p)
    /\ children' = [children EXCEPT ![p] = Append(@, c)]
    /\ Leaves(OnError(p, ComponentUpdate(p, LifeState)))
    /\ lifeOp' = LifeOp("add_child", p, c)
    /\ UNCHANGED <<handlers, vdomVars, cacheVars, renderVars, extraVars>>

\* list.remove(x): the list without the first element equal to x
ListRemove(list, x) ==
    LET i == CHOOSE n \in 1..Len(list) : list[n] = x /\ \A m \in 1..(n - 1) : list[m] # x
    IN  [n \in 1..(Len(list) - 1) |-> IF n < i THEN list[n] ELSE list[n + 1]]

\* p.remove_child(c)
RemoveChildOf(p, c) ==
    /\ IF c \in Range(children[p])
       THEN /\ children' = [children EXCEPT ![p] = ListRemove(@, c)]
            /\ Leaves(OnError(p, ComponentUpdate(p, LifeState)))
       ELSE /\ children' = children
            /\ Leaves(LifeState)
    /\ lifeOp' = LifeOp("remove_child", p, c)
    /\ UNCHANGED <<handlers, vdomVars, cacheVars, renderVars, extraVars>>

\* c.mount()
Mount(c) ==
    /\ Leaves(ComponentMount(c, LifeState))
    /\ lifeOp' = LifeOp("mount", c, "")
    /\ UNCHANGED <<children, handlers, vdomVars, cacheVars, renderVars, extraVars>>

\* c.unmount()
Unmount(c) ==
    /\ Leaves(ComponentUnmount(c, LifeState))
    /\ lifeOp' = LifeOp("unmount", c, "")
    /\ UNCHANGED <<children, handlers, vdomVars, cacheVars, renderVars, extraVars>>

\* c.set_prop(key, value)
SetProp(c, key, value) ==
    /\ Leaves(ComponentSetProp(c, key, value, LifeState))
    /\ lifeOp' = LifeOp("set_prop", c, <<key, value>>)
    /\ UNCHANGED <<children, handlers, vdomVars, cacheVars, renderVars, extraVars>>

\* c.set_state(key, value)
SetState(c, key, value) ==
    /\ Leaves(ComponentSetState(c, key, value, LifeState))
    /\ lifeOp' = LifeOp("set_state", c, <<key, value>>)
    /\ UNCHANGED <<children, handlers, vdomVars, cacheVars, renderVars, extraVars>>

NextLife ==
    \/ \E p \in Comps, c \in Comps : AddChild(p, c)
    \/ \E p \in Comps, c \in Comps : RemoveChildOf(p, c)
    \/ \E c \in Comps : Mount(c)
    \/ \E c \in Comps : Unmount(c)

SpecLife == InitLife /\ [][NextLife]_vars

-----------------------------------------------------------------------------
(* SpecProp: two of the components, built into a tree, mounted and         *)
(* unmounted as under SpecLife; set_prop / set_state are called with any   *)
(* key and value, at any time, on the component c1, which is the parent   *)
(* of c2, its child, or on its own.                                        *)

PropComps == {"c1", "c2"}

SetComps == {"c1"}

NextProp ==
    \/ \E p \in PropComps, c \in PropComps : AddChild(p, c)
    \/ \E c \in PropComps : Mount(c)
    \/ \E c \in PropComps : Unmount(c)
    \/ \E c \in SetComps, k \in PropNames, v \in PropValues : SetProp(c, k, v)
    \/ \E c \in SetComps, k \in PropNames, v \in PropValues : SetState(c, k, v)

SpecProp == InitLife /\ [][NextProp]_vars

-----------------------------------------------------------------------------
(* Properties of VDOMDiffer.diff (checked under SpecVdom).                 *)

\* structural equality of two trees, stated on their canonical forms: the
\* props as a set of key/value pairs, the children in order
RECURSIVE Canon(_)
Canon(n) ==
    [kind |-> n.kind, tag |-> n.tag, props |-> Range(n.props),
     children |-> [i \in 1..Len(n.children) |-> Canon(n.children[i])]]

StructEq(a, b) == Canon(a) = Canon(b)

DiffDone == vpc = "done" /\ IsVNode(oldNode) /\ IsVNode(newNode)

\* C1: diff of two structurally equal trees (same tag, equal props, equal
\* children recursively and in order) returns the empty patch list.
C1_DiffEqualIsEmpty ==
    (DiffDone /\ StructEq(oldNode, newNode)) => (raised = "" /\ patches = <<>>)

\* two equal trees that are not the same value (their props were inserted in
\* a different order) and that have a VNode child, diffed to []
C1_Witness ==
    /\ DiffDone
    /\ StructEq(oldNode, newNode)
    /\ oldNode # newNode
    /\ \E k \in Range(oldNode.children) : IsVNode(k)
    /\ raised = ""
    /\ patches = <<>>

\* C2: for two VNodes of different tags diff returns exactly [REPLACE{new}],
\* whatever the props and children: no PROPS patch, no child patch.
C2_DiffTagsReplace ==
    (DiffDone /\ oldNode.tag # newNode.tag)
        => (raised = "" /\ patches = <<Replace(newNode)>>)

\* different tags, different props, different children with a VNode child
C2_Witness ==
    /\ DiffDone
    /\ oldNode.tag # newNode.tag
    /\ ~DictEq(oldNode.props, newNode.props)
    /\ Len(oldNode.children) # Len(newNode.children)
    /\ \E k \in Range(newNode.children) : IsVNode(k)
    /\ patches = <<Replace(newNode)>>

\* C3: diff(None, N) is exactly [CREATE{N}] and diff(N, None) is exactly
\* [REMOVE], for every VNode N.
C3_DiffCreateRemove ==
    /\ (vpc = "done" /\ oldNode = NoneNode /\ IsVNode(newNode))
           => (raised = "" /\ patches = <<Create(newNode)>>)
    /\ (vpc = "done" /\ IsVNode(oldNode) /\ newNode = NoneNode)
           => (raised = "" /\ patches = <<Remove>>)

\* a node with props and children diffed against None
C3_Witness ==
    /\ vpc = "done"
    /\ IsVNode(oldNode)
    /\ newNode = NoneNode
    /\ oldNode.props # <<>>
    /\ oldNode.children # <<>>
    /\ patches = <<Remove>>

\* the positions (0-based) at which two child lists of one length differ
DifferAt(a, b) == {i \in 0..(Len(a) - 1) : ~StructEq(a[i + 1], b[i + 1])}

\* C4: same tag, equal props, child lists of the same length that differ at
\* exactly one position i: diff returns exactly
\* [REPLACE_CHILD{index: i, node: new.children[i]}].
C4_DiffOneChildReplaced ==
    (/\ DiffDone
     /\ oldNode.tag = newNode.tag
     /\ Range(oldNode.props) = Range(newNode.props)
     /\ Len(oldNode.children) = Len(newNode.children)
     /\ Cardinality(DifferAt(oldNode.children, newNode.children)) = 1)
        => \E i \in DifferAt(oldNode.children, newNode.children) :
               /\ raised = ""
               /\ patches = <<ReplaceChild(i, newNode.children[i + 1])>>

-----------------------------------------------------------------------------
(* Properties of ComponentCache (checked under SpecCache).                 *)

KeySeq(c) == [i \in 1..Len(c) |-> c[i].key]

IsSuffix(s, t) == Len(s) <= Len(t) /\ s = SubSeq(t, Len(t) - Len(s) + 1, Len(t))

\* C5: the cache never holds more than max_size entries.
C5_CountBounded == Len(cache) <= MaxSize

\* a set that had to evict and left the cache full
C5_Witness ==
    /\ lastOp.op = "set"
    /\ lastOp.stored
    /\ lastOp.evicted # <<>>
    /\ Len(cache) = MaxSize

\* C6: the sizes of the stored values never add up to more than max_memory.
C6_MemoryBounded == SumSizes(cache) <= MaxMemory

\* a set at time 0 (nothing can have expired) into a cache with a free
\* slot, which evicted because the new value did not fit in memory
C6_Witness ==
    /\ lastOp.op = "set"
    /\ lastOp.stored
    /\ lastOp.evicted # <<>>
    /\ now = 0
    /\ Len(cache) + Len(lastOp.evicted) <= MaxSize
    /\ SumSizes(cache) + SumSizes(lastOp.evicted) > MaxMemory
    /\ SumSizes(cache) <= MaxMemory

FullAndFresh(key, value) ==
    /\ key \notin CacheKeys(cache)
    /\ Len(cache) = MaxSize
    /\ \A i \in 1..Len(cache) : now - cache[i].ts <= Ttl
    /\ curMem + SizeOf(value) <= MaxMemory

\* C8: the dict is kept in order of last use (a storing set and a
\* successful get move their key to the end, the other keys keep their
\* order), and a set of a new key into a full cache of unexpired entries,
\* with room in memory, evicts exactly the first (least recently used)
\* entry and keeps all the others.
C8_EvictsLeastRecentlyUsed ==
    [][ /\ (lastOp'.op = "set" /\ lastOp'.stored) =>
              \E rest \in {SubSeq(cache', 1, Len(cache') - 1)} :
                  /\ cache'[Len(cache')].key = lastOp'.key
                  /\ cache'[Len(cache')].value = lastOp'.value
                  /\ IsSuffix(rest, Without(cache, lastOp'.key))
        /\ (lastOp'.op = "get" /\ lastOp'.ret # NoValue) =>
              KeySeq(cache') = Append(KeySeq(Without(cache, lastOp'.key)), lastOp'.key)
        /\ (lastOp'.op = "get" /\ lastOp'.ret = NoValue) =>
              KeySeq(cache') = KeySeq(Without(cache, lastOp'.key))
        /\ (lastOp'.op = "set" /\ FullAndFresh(lastOp'.key, lastOp'.value)) =>
              /\ lastOp'.stored
              /\ lastOp'.evicted = <<cache[1]>>
              /\ SubSeq(cache', 1, Len(cache') - 1) = Tail(cache)
      ]_vars

\* k1, k2, k3 were set in this order at time 0 and the set of k3 evicted k1
\* alone, although the memory had room for all three values
C8_Witness ==
    /\ lastOp.op = "set"
    /\ lastOp.key = "k3"
    /\ now = 0
    /\ Len(lastOp.evicted) = 1
    /\ lastOp.evicted[1].key = "k1"
    /\ KeySeq(cache) = <<"k2", "k3">>
    /\ Len(cache) = MaxSize
    /\ SumSizes(cache) + SumSizes(lastOp.evicted) <= MaxMemory

-----------------------------------------------------------------------------
(* Properties of Component.mount and Component.unmount (checked under      *)
(* SpecLife).                                                              *)

\* the invocations of calls that were made on component c
CallsOn(c, cs) == SelectSeq(cs, LAMBDA x : x.comp = c)

\* the invocations one firing of the delegate `hook` of c makes
Firing(c, hook) ==
    [i \in 1..Len(handlers[c][hook]) |-> Call(c, hook, handlers[c][hook][i])]

\* C9: mount() on a mounted component invokes no listener and changes no
\* flag; mount() on a fresh component invokes its before-mount listeners
\* and then its mounted listeners, each exactly once.
C9_MountTwiceIsNoOp ==
    [][ \A c \in Comps :
          (lifeOp'.op = "mount" /\ lifeOp'.comp = c) =>
              /\ mounted[c] =>
                    /\ calls' = <<>>
                    /\ mounted' = mounted
                    /\ destroyed' = destroyed
                    /\ children' = children
              /\ (~mounted[c] /\ ~destroyed[c]) =>
                    /\ mounted'[c]
                    /\ CallsOn(c, calls') = Firing(c, "before_mount") \o Firing(c, "mounted")
      ]_vars

\* a mount() that invoked nothing on a mounted component that has
\* listeners on its hooks and a child
C9_Witness ==
    /\ lifeOp.op = "mount"
    /\ mounted[lifeOp.comp]
    /\ ~destroyed[lifeOp.comp]
    /\ handlers[lifeOp.comp]["before_mount"] # <<>>
    /\ handlers[lifeOp.comp]["mounted"] # <<>>
    /\ children[lifeOp.comp] # <<>>
    /\ calls = <<>>

\* C10: unmount() on a component that was never mounted invokes no
\* listener, leaves every flag (its own and its children's) as it was, and
\* a later mount() still mounts the component.
C10_UnmountFreshIsNoOp ==
    [][ \A c \in Comps :
          /\ (lifeOp'.op = "unmount" /\ lifeOp'.comp = c /\ ~mounted[c] /\ ~destroyed[c]) =>
                /\ calls' = <<>>
                /\ mounted' = mounted
                /\ destroyed' = destroyed
                /\ children' = children
          /\ (lifeOp'.op = "mount" /\ lifeOp'.comp = c /\ ~mounted[c] /\ ~destroyed[c]) =>
                (mounted'[c] /\ ~destroyed'[c])
      ]_vars

\* an unmount() that invoked nothing on a never-mounted component that has
\* listeners on its hooks and a mounted child
C10_Witness ==
    /\ lifeOp.op = "unmount"
    /\ ~mounted[lifeOp.comp]
    /\ ~destroyed[lifeOp.comp]
    /\ handlers[lifeOp.comp]["before_destroy"] # <<>>
    /\ \E k \in Range(children[lifeOp.comp]) : mounted[k] /\ ~destroyed[k]
    /\ calls = <<>>

-----------------------------------------------------------------------------
(* Properties of the lifecycle after destruction, of set_prop / set_state  *)
(* and of raising listeners (checked under SpecLife and SpecProp).         *)

\* C11: destroyed is terminal: mount() and unmount() on a component that
\* unmount() destroyed invoke none of its listeners and leave it destroyed
\* and not mounted.
C11_DestroyedIsTerminal ==
    [][ \A c \in Comps :
          (/\ destroyed[c]
           /\ ~mounted[c]
           /\ lifeOp'.op \in {"mount", "unmount"}
           /\ lifeOp'.comp = c) =>
              /\ CallsOn(c, calls') = <<>>
              /\ destroyed'[c]
              /\ ~mounted'[c]
      ]_vars

\* the last operation was `op` called on c with the key k and the value v
SetCall(op, c, k, v) ==
    /\ lifeOp.op = op
    /\ lifeOp.comp = c
    /\ lifeOp.arg = <<k, v>>

\* the invocations of calls that were made on the delegates `hooks`
CallsOf(hooks, cs) == SelectSeq(cs, LAMBDA x : x.hook \in hooks)

\* C12: set_prop(k, v) and set_state(k, v) with v equal to the value the
\* mapping holds under k change nothing: props and state are unchanged and
\* no listener (prop-change, state-change, before-update, updated or any
\* other) is invoked.
C12_SetEqualIsNoOp ==
    [][ \A c \in Comps, k \in PropNames, v \in PropValues :
          /\ (SetCall("set_prop", c, k, v)' /\ compProps[c][k] = v) =>
                /\ compProps' = compProps
                /\ compState' = compState
                /\ calls' = <<>>
          /\ (SetCall("set_state", c, k, v)' /\ compState[c][k] = v) =>
                /\ compProps' = compProps
                /\ compState' = compState
                /\ calls' = <<>>
      ]_vars

\* a set_prop with the stored value on a mounted component that has
\* listeners on its prop-change and update hooks: nothing was invoked
C12_Witness ==
    \E c \in Comps, k \in PropNames, v \in PropValues :
        /\ SetCall("set_prop", c, k, v)
        /\ compProps[c][k] = v
        /\ mounted[c]
        /\ ~destroyed[c]
        /\ handlers[c]["prop_change"] # <<>>
        /\ handlers[c]["before_update"] # <<>>
        /\ calls = <<>>

\* v differs from the value the dict d holds under k (a None set on a key
\* that d does not hold is left out: the dict holds no value to differ from)
Differs(d, k, v) == d[k] # v /\ ~(d[k] = Absent /\ v = NoneVal)

UpdateHooks == {"before_update", "updated"}

\* C13 as stated: set_prop(k, v) and set_state(k, v) with a value that
\* differs from the current one store v and then invoke the before-update
\* listeners followed by the updated listeners, on any component.
C13_SetChangedUpdates ==
    [][ \A c \in Comps, k \in PropNames, v \in PropValues :
          /\ (SetCall("set_prop", c, k, v)' /\ Differs(compProps[c], k, v)) =>
                /\ compProps'[c][k] = v
                /\ CallsOf(UpdateHooks, calls')
                       = Firing(c, "before_update") \o Firing(c, "updated")
          /\ (SetCall("set_state", c, k, v)' /\ Differs(compState[c], k, v)) =>
                /\ compState'[c][k] = v
                /\ CallsOf(UpdateHooks, calls')
                       = Firing(c, "before_update") \o Firing(c, "updated")
      ]_vars

\* what an update of c invokes: the before-update and then the updated
\* listeners when c is mounted and not destroyed, nothing otherwise
UpdateFiring(c) ==
    IF mounted[c] /\ ~destroyed[c]
    THEN Firing(c, "before_update") \o Firing(c, "updated")
    ELSE <<>>

\* C13 amended: the value is stored and the prop-change (state-change)
\* listeners are invoked on every component; the before-update and updated
\* listeners follow, in this order, only on a component that is mounted and
\* not destroyed.
C13_SetChangedUpdatesWhenMounted ==
    [][ \A c \in Comps, k \in PropNames, v \in PropValues :
          /\ (SetCall("set_prop", c, k, v)' /\ Differs(compProps[c], k, v)) =>
                /\ compProps'[c][k] = v
                /\ compState' = compState
                /\ calls' = Firing(c, "prop_change") \o UpdateFiring(c)
          /\ (SetCall("set_state", c, k, v)' /\ Differs(compState[c], k, v)) =>
                /\ compState'[c][k] = v
                /\ compProps' = compProps
                /\ calls' = Firing(c, "state_change") \o UpdateFiring(c)
      ]_vars

\* a set_state that replaced a stored value on a mounted component and
\* invoked its state-change, before-update and updated listeners
C13_Witness ==
    \E c \in Comps, k \in PropNames, v \in PropValues :
        /\ SetCall("set_state", c, k, v)
        /\ compState[c][k] = v
        /\ mounted[c]
        /\ ~destroyed[c]
        /\ Firing(c, "before_update") # <<>>
        /\ calls = Firing(c, "state_change") \o Firing(c, "before_update")
                       \o Firing(c, "updated")

LifecycleHooks == {"before_mount", "mounted", "before_update", "updated",
                   "before_destroy", "destroyed"}

\* C14: when a listener of a lifecycle hook of c raised during the last
\* operation, the listeners of c's error hook were invoked after it.
C14_ListenerErrorReachesErrorHook ==
    \A c \in Comps : \A i \in 1..Len(calls) :
        (/\ calls[i].comp = c
         /\ calls[i].hook \in LifecycleHooks
         /\ Raises(calls[i].listener)
         /\ handlers[c]["error"] # <<>>) =>
            \E j \in (i + 1)..Len(calls) :
                calls[j].comp = c /\ calls[j].hook = "error"

\* C15: a raising listener is contained.  No exception reaches the caller
\* of an operation; mount() of a fresh component invokes every before-mount
\* and then every mounted listener in registration order, mounts the
\* component and its children; unmount() of a mounted component does the
\* same with before-destroy / destroyed and destroys its mounted children;
\* set_prop / set_state store the value and invoke every listener of the
\* change hook and of the update hooks; whichever listeners raise.
C15_RaisingListenerContained ==
    [][ /\ lifeExc' = ""
        /\ \A c \in Comps :
             /\ (lifeOp'.op = "mount" /\ lifeOp'.comp = c
                   /\ ~mounted[c] /\ ~destroyed[c]) =>
                   /\ CallsOn(c, calls')
                          = Firing(c, "before_mount") \o Firing(c, "mounted")
                   /\ mounted'[c]
                   /\ \A k \in Range(children[c]) : mounted'[k]
             /\ (lifeOp'.op = "unmount" /\ lifeOp'.comp = c
                   /\ mounted[c] /\ ~destroyed[c]) =>
                   /\ CallsOn(c, calls')
                          = Firing(c, "before_destroy") \o Firing(c, "destroyed")
                   /\ destroyed'[c] /\ ~mounted'[c]
                   /\ \A k \in Range(children[c]) :
                          (mounted[k] /\ ~destroyed[k]) => destroyed'[k]
             /\ \A k \in PropNames, v \in PropValues :
                   /\ (SetCall("set_prop", c, k, v)' /\ Differs(compProps[c], k, v)) =>
                         /\ compProps'[c][k] = v
                         /\ calls' = Firing(c, "prop_change") \o UpdateFiring(c)
                   /\ (SetCall("set_state", c, k, v)' /\ Differs(compState[c], k, v)) =>
                         /\ compState'[c][k] = v
                         /\ calls' = Firing(c, "state_change") \o UpdateFiring(c)
      ]_vars

\* a mount() of a parent whose first before-mount listener raised: the
\* second one was invoked after it, the child was mounted, the mounted
\* listeners were invoked, and nothing reached the caller
C15_Witness ==
    \E c \in Comps :
        /\ lifeOp.op = "mount"
        /\ lifeOp.comp = c
        /\ handlers[c]["before_mount"] = <<"boom", "ok">>
        /\ children[c] # <<>>
        /\ \A k \in Range(children[c]) : mounted[k]
        /\ mounted[c]
        /\ CallsOn(c, calls) = Firing(c, "before_mount") \o Firing(c, "mounted")
        /\ Len(calls) > Len(CallsOn(c, calls))
        /\ lifeExc = ""

-----------------------------------------------------------------------------
(* Rejection of oversized values by ComponentCache.set (checked under      *)
(* SpecCache).                                                             *)

\* C16: a set(key, value) whose value is larger than max_memory stores
\* nothing and evicts nothing: the entries of the cache, the entry stored
\* under key among them, their order and timestamps, and the accounted
\* memory are what they were before the call.
C16_OversizeSetRejected ==
    [][ (lastOp'.op = "set" /\ SizeOf(lastOp'.value) > MaxMemory) =>
            /\ cache' = cache
            /\ curMem' = curMem
            /\ lastOp'.evicted = <<>>
            /\ ~lastOp'.stored
      ]_vars

\* an oversized set on a full cache that holds the key and whose oldest
\* entry is past its ttl: every entry is still there
C16_Witness ==
    /\ lastOp.op = "set"
    /\ SizeOf(lastOp.value) > MaxMemory
    /\ ~lastOp.stored
    /\ lastOp.key \in CacheKeys(cache)
    /\ Len(cache) = MaxSize
    /\ now - cache[1].ts > Ttl
    /\ curMem = SumSizes(cache)

-----------------------------------------------------------------------------
(* Properties of VDOMRenderer.render_to_string (checked under SpecRender). *)

\* the attribute a prop is rendered to: nothing for None and False, the
\* bare name for True, name="value" otherwise, the value as the renderer
\* writes it
AttributeText(key, value) ==
    IF value.type \in {"None", "False"} THEN ""
    ELSE IF value.type = "True" THEN " " \o Join(key)
    ELSE " " \o Join(key) \o "=\""
             \o (IF value.type = "str" /\ ~StartsWithOn(key) /\ "\"" \notin Range(value.pieces)
                 THEN Join(value.pieces)
                 ELSE Join(ReplaceQuote(WrittenValue(key, value))))
             \o "\""

\* the attributes of the props, in insertion order
RECURSIVE AttributesText(_)
AttributesText(p) ==
    IF p = <<>> THEN ""
    ELSE AttributeText(p[1][1], p[1][2]) \o AttributesText(Tail(p))

\* the rendering of a tree: a str is itself, a void element is its open tag
\* closed by "/>", any other VNode is its open tag, its children in order
\* and its closing tag
RECURSIVE Rendering(_)
Rendering(n) ==
    IF n.kind = "text" THEN n.tag
    ELSE IF n.tag \in VoidTags
    THEN "<" \o n.tag \o AttributesText(n.props) \o "/>"
    ELSE "<" \o n.tag \o AttributesText(n.props) \o ">"
             \o Join([i \in 1..Len(n.children) |-> Rendering(n.children[i])])
             \o "</" \o n.tag \o ">"

RenderDone == rpc = "done" /\ IsVNode(renderArg)

\* C17: a VNode that is not a void element renders to "<tag", one attribute
\* per rendered prop in insertion order, ">", the renderings of its children
\* in child order, "</tag>"; div with {id: "a"} and the child span["hello"]
\* renders to <div id="a"><span>hello</span></div>.
C17_RenderElement ==
    (RenderDone /\ renderArg.tag \notin VoidTags) =>
        /\ html = "<" \o renderArg.tag \o AttributesText(renderArg.props) \o ">"
                    \o Join([i \in 1..Len(renderArg.children) |->
                                Rendering(renderArg.children[i])])
                    \o "</" \o renderArg.tag \o ">"
        /\ (renderArg = VNode("div", << <<KeyId, PyStr(<<"a">>)>> >>,
                              <<VNode("span", <<>>, <<Text("hello")>>)>>))
               => html = "<div id=\"a\"><span>hello</span></div>"

\* a div with two props and two different children, the first of them a
\* VNode, rendered with both attributes and both children in order
C17_Witness ==
    /\ RenderDone
    /\ renderArg.tag = "div"
    /\ renderArg.props = << <<KeyId, PyStr(<<"a">>)>>, <<KeyClass, PyStr(<<"c">>)>> >>
    /\ renderArg.children = <<VNode("span", <<>>, <<Text("hello")>>), Text("hello")>>
    /\ html = "<div id=\"a\" class=\"c\"><span>hello</span>hello</div>"

\* C18: a VNode whose tag is a void element renders to "<tag", its
\* attributes and "/>", with no closing tag and nothing for its children;
\* img with {src: "a.png"} renders to <img src="a.png"/>.
C18_RenderVoidElement ==
    (RenderDone /\ renderArg.tag \in VoidTags) =>
        /\ html = "<" \o renderArg.tag \o AttributesText(renderArg.props) \o "/>"
        /\ (renderArg.tag = "img"
              /\ renderArg.props = << <<KeySrc, PyStr(<<"a.png">>)>> >>)
               => html = "<img src=\"a.png\"/>"

\* an img that was given children, rendered without them
C18_Witness ==
    /\ RenderDone
    /\ renderArg.tag = "img"
    /\ renderArg.props = << <<KeySrc, PyStr(<<"a.png">>)>> >>
    /\ Len(renderArg.children) = MaxChildren
    /\ html = "<img src=\"a.png\"/>"

-----------------------------------------------------------------------------
(* Properties of the patch list as an edit script and of the PROPS patch   *)
(* (checked under SpecVdom).                                               *)

ChildPatchTypes == {"REPLACE_CHILD", "REMOVE_CHILD", "INSERT_CHILD"}

\* the list without its element at the 0-based position i
RemoveAt(list, i) ==
    [n \in 1..(Len(list) - 1) |-> IF n <= i THEN list[n] ELSE list[n + 1]]

\* the list with x inserted at the 0-based position i
InsertAt(list, i, x) ==
    [n \in 1..(Len(list) + 1) |->
        IF n <= i THEN list[n] ELSE IF n = i + 1 THEN x ELSE list[n - 1]]

\* one child patch applied to a list: r is [ok, list], ok FALSE once a
\* patch named a position the list does not have.  REPLACE_CHILD with a
\* null node removes the element.
ApplyChildPatch(r, p) ==
    IF ~r.ok THEN r
    ELSE CASE p.type = "REPLACE_CHILD" ->
                IF p.index >= Len(r.list) THEN [r EXCEPT !.ok = FALSE]
                ELSE IF p.node = NoneNode
                THEN [r EXCEPT !.list = RemoveAt(r.list, p.index)]
                ELSE [r EXCEPT !.list[p.index + 1] = p.node]
           [] p.type = "REMOVE_CHILD" ->
                IF p.index >= Len(r.list) THEN [r EXCEPT !.ok = FALSE]
                ELSE [r EXCEPT !.list = RemoveAt(r.list, p.index)]
           [] p.type = "INSERT_CHILD" ->
                IF p.index > Len(r.list) THEN [r EXCEPT !.ok = FALSE]
                ELSE [r EXCEPT !.list = InsertAt(r.list, p.index, p.node)]
           [] OTHER -> r

\* the patches applied one after the other, each to the list the
\* preceding ones left
RECURSIVE ApplyChildPatches(_, _)
ApplyChildPatches(r, ps) ==
    IF ps = <<>> THEN r
    ELSE ApplyChildPatches(ApplyChildPatch(r, Head(ps)), Tail(ps))

ChildPatches == SelectSeq(patches, LAMBDA p : p.type \in ChildPatchTypes)

ListsEqual(a, b) ==
    Len(a) = Len(b) /\ \A i \in 1..Len(a) : StructEq(a[i], b[i])

\* C19: for two VNodes of the same tag, diff returns, and its child
\* patches applied in sequence to old.children give new.children.
C19_PatchesAreEditScript ==
    (DiffDone /\ oldNode.tag = newNode.tag) =>
        /\ raised = ""
        /\ LET r == ApplyChildPatches([ok |-> TRUE, list |-> oldNode.children],
                                      ChildPatches)
           IN  r.ok /\ ListsEqual(r.list, newNode.children)

\* the mapping a PROPS patch must carry: the keys of the new props that the
\* old props lack or hold with another value, with the new value, and the
\* keys only the old props have, with None
PropsDelta(oldProps, newProps) ==
    {kv \in Range(newProps) :
        \/ kv[1] \notin PropKeys(oldProps)
        \/ PropVal(oldProps, kv[1]) # kv[2]}
    \cup {<<kv[1], NoneVal>> : kv \in {x \in Range(oldProps) : x[1] \notin PropKeys(newProps)}}

\* C20: for two VNodes of the same tag, diff emits exactly one PROPS patch,
\* before every child patch, when the props differ, and none when they are
\* equal; the patch maps exactly the new and changed keys to their new
\* value and the removed keys to None.
C20_PropsPatch ==
    (DiffDone /\ oldNode.tag = newNode.tag) =>
        LET pp == SelectSeq(patches, LAMBDA p : p.type = "PROPS")
        IN  IF Range(oldNode.props) # Range(newNode.props)
            THEN /\ Len(pp) = 1
                 /\ patches[1].type = "PROPS"
                 /\ Range(pp[1].props) = PropsDelta(oldNode.props, newNode.props)
                 /\ Len(pp[1].props) = Cardinality(PropsDelta(oldNode.props, newNode.props))
            ELSE pp = <<>>

-----------------------------------------------------------------------------
(* Order of the hooks within one mount() and one unmount() (checked under  *)
(* SpecLife).                                                              *)

Descendants(c) == {d \in Comps : c \in Ancestors(d)}

Subtree(c) == {c} \cup Descendants(c)

\* in the list cs, every invocation on a component of A comes before every
\* invocation on a component of B
AllBefore(cs, A, B) ==
    \A i, j \in 1..Len(cs) : (cs[i].comp \in A /\ cs[j].comp \in B) => i < j

\* in the subtree of c the lists of two children of one parent are worked
\* through one after the other, in children-list order
ChildrenInOrder(c, cs) ==
    \A d \in Subtree(c) : \A a, b \in 1..Len(children[d]) :
        a < b => AllBefore(cs, Subtree(children[d][a]), Subtree(children[d][b]))

\* C21: mount() on an unmounted component invokes its before-mount
\* listeners, then mounts each child in children-list order, depth-first,
\* then invokes its mounted listeners: in the subtree every component's
\* before-mount invocations come before, and its mounted invocations after,
\* every invocation on its descendants; the before-mount listeners find the
\* component unmounted, the mounted listeners find it and its children
\* mounted.
C21_MountOrder ==
    [][ \A c \in Comps :
          (lifeOp'.op = "mount" /\ lifeOp'.comp = c /\ ~mounted[c] /\ ~destroyed[c]) =>
              /\ CallsOn(c, calls') = Firing(c, "before_mount") \o Firing(c, "mounted")
              /\ \A k \in Range(children[c]) :
                     (~mounted[k] /\ ~destroyed[k]) =>
                         /\ mounted'[k]
                         /\ CallsOn(k, calls')
                                = Firing(k, "before_mount") \o Firing(k, "mounted")
              /\ ChildrenInOrder(c, calls')
              /\ \A i \in 1..Len(calls') :
                     LET d == calls'[i].comp
                     IN  /\ d \in Subtree(c)
                         /\ calls'[i].hook \in {"before_mount", "mounted"}
                         /\ calls'[i].hook = "before_mount" =>
                                /\ ~callFlags'[i].mounted[d]
                                /\ \A j \in 1..Len(calls') :
                                       calls'[j].comp \in Descendants(d) => i < j
                         /\ calls'[i].hook = "mounted" =>
                                /\ callFlags'[i].mounted[d]
                                /\ \A k \in Range(children[d]) : callFlags'[i].mounted[k]
                                /\ \A j \in 1..Len(calls') :
                                       calls'[j].comp \in Descendants(d) => j < i
      ]_vars

\* a mount() of a component with a child and a grandchild, or with two
\* children, all of them unmounted before and with listeners: the hooks of
\* all three were invoked
C21_Witness ==
    \E c \in Comps :
        /\ lifeOp.op = "mount"
        /\ lifeOp.comp = c
        /\ Descendants(c) = Comps \ {c}
        /\ handlers[c]["mounted"] # <<>>
        /\ \A d \in Comps : mounted[d] /\ ~destroyed[d]
        /\ \A d \in Comps :
               CallsOn(d, calls) = Firing(d, "before_mount") \o Firing(d, "mounted")
        /\ calls[Len(calls)].comp = c

\* C22: unmount() on a mounted component invokes its before-destroy
\* listeners, sets it destroyed, unmounts each child in children-list
\* order, then invokes its destroyed listeners: in the subtree every
\* component's before-destroy invocations come before, and its destroyed
\* invocations after, every invocation on its descendants, which find the
\* component already destroyed; every child that was mounted ends up
\* destroyed.
C22_UnmountOrder ==
    [][ \A c \in Comps :
          (lifeOp'.op = "unmount" /\ lifeOp'.comp = c /\ mounted[c] /\ ~destroyed[c]) =>
              /\ CallsOn(c, calls')
                     = Firing(c, "before_destroy") \o Firing(c, "destroyed")
              /\ destroyed'[c]
              /\ \A k \in Range(children[c]) : mounted[k] => destroyed'[k]
              /\ ChildrenInOrder(c, calls')
              /\ \A i \in 1..Len(calls') :
                     LET d == calls'[i].comp
                     IN  /\ d \in Subtree(c)
                         /\ calls'[i].hook \in {"before_destroy", "destroyed"}
                         /\ calls'[i].hook = "before_destroy" =>
                                /\ callFlags'[i].mounted[d]
                                /\ ~callFlags'[i].destroyed[d]
                                /\ \A j \in 1..Len(calls') :
                                       calls'[j].comp \in Descendants(d) => i < j
                         /\ calls'[i].hook = "destroyed" =>
                                /\ callFlags'[i].destroyed[d]
                                /\ ~callFlags'[i].mounted[d]
                                /\ \A j \in 1..Len(calls') :
                                       calls'[j].comp \in Descendants(d) => j < i
                         /\ \A a \in Ancestors(d) \cap Subtree(c) :
                                callFlags'[i].destroyed[a]
      ]_vars

\* an unmount() of a mounted component with a mounted child and a mounted
\* grandchild, or two mounted children, with listeners: all three were
\* destroyed and their hooks invoked
C22_Witness ==
    \E c \in Comps :
        /\ lifeOp.op = "unmount"
        /\ lifeOp.comp = c
        /\ Descendants(c) = Comps \ {c}
        /\ handlers[c]["destroyed"] # <<>>
        /\ \A d \in Comps : destroyed[d] /\ ~mounted[d]
        /\ \A d \in Comps :
               CallsOn(d, calls) = Firing(d, "before_destroy") \o Firing(d, "destroyed")
        /\ calls[Len(calls)].comp = c

-----------------------------------------------------------------------------
(* Expired entries after ComponentCache.set (checked under SpecCache).     *)

\* C23: when a set that stored its value has returned, no entry of the
\* cache has a timestamp more than ttl old.  The loop of set looks at the
\* first entry only; it removes every expired entry because, in every
\* state, the timestamps never decrease along the order of the cache, so
\* the first entry is the oldest.
C23_NoExpiredAfterSet ==
    /\ \A i, j \in 1..Len(cache) : i < j => cache[i].ts <= cache[j].ts
    /\ (lastOp.op = "set" /\ lastOp.stored) =>
           \A i \in 1..Len(cache) : now - cache[i].ts <= Ttl

\* a set that stored its value after evicting an entry that was past its
\* ttl and nothing else: the cache was neither full nor short of memory
C23_Witness ==
    /\ lastOp.op = "set"
    /\ lastOp.stored
    /\ Len(lastOp.evicted) = 1
    /\ now - lastOp.evicted[1].ts > Ttl
    /\ Len(cache) = 1
    /\ SizeOf(lastOp.value) + SizeOf(lastOp.evicted[1].value) <= MaxMemory

-----------------------------------------------------------------------------
(* ComponentCache called from two threads (components.py).  The cache is   *)
(* one object per process (__new__ returns the single instance) and get    *)
(* and set take no lock, so two callers interleave statement by statement. *)
(* Each action below is one statement (or one iteration of the while loop) *)
(* of get or set run by one thread, each thread making one call; th.t is   *)
(* the thread's current_time,                                              *)
(* th.held the value get read.  An exception inside the try block is       *)
(* caught by the method, which then returns.                               *)

ConcValues == {"small", "large"}

\* caches a single caller can leave behind at time MaxTime: at most
\* MaxSize entries within the memory limit, timestamps in dict order
ConcEntries ==
    {Entry(k, v, t, t) : k \in Keys, v \in ConcValues, t \in {0, MaxTime}}

ConcCaches ==
    {c \in SeqsUpTo(ConcEntries, MaxSize) :
        /\ \A i, j \in 1..Len(c) : i # j => c[i].key # c[j].key
        /\ \A i, j \in 1..Len(c) : i < j => c[i].ts <= c[j].ts
        /\ SumSizes(c) <= MaxMemory}

\* self._cache[key] = (value, timestamp): in place for a key of the dict,
\* at the end for a new key
DictStore(c, k, v, t) ==
    IF k \in CacheKeys(c)
    THEN [i \in 1..Len(c) |->
            IF c[i].key = k THEN Entry(k, v, t, c[i].setAt) ELSE c[i]]
    ELSE Append(c, Entry(k, v, t, t))

Goto(th, label) == threads' = [threads EXCEPT ![th].pc = label]

\* the call returns; each thread makes one call
Return(th) == threads' = [threads EXCEPT ![th] = [IdleThread EXCEPT !.pc = "done"]]

\* no thread is inside get or set
Quiescent == \A th \in ThreadIds : threads[th].pc \in {"idle", "done"}

InitConc ==
    /\ VdomIdle
    /\ LifeIdle
    /\ RenderIdle
    /\ ConcIdle
    /\ DelegateIdle
    /\ AsyncIdle
    /\ StoreIdle
    /\ cache \in ConcCaches
    /\ curMem = SumSizes(cache)
    /\ now = MaxTime
    /\ lastOp = Op("init", "", NoValue, NoOutcome)

\* set, entry: value_size and current_time are computed, a value larger
\* than the memory limit returns at once
BeginSet(th, k, v) ==
    /\ threads[th].pc = "idle"
    /\ SizeOf(v) <= MaxMemory
    /\ threads' = [threads EXCEPT ![th] =
            [pc |-> "set_pop", key |-> k, value |-> v, held |-> NoValue, t |-> now]]
    /\ UNCHANGED <<cache, curMem>>

\* if key in self._cache: old_value, _ = self._cache.pop(key); memory -= size
SetPop(th) ==
    /\ threads[th].pc = "set_pop"
    /\ IF threads[th].key \in CacheKeys(cache)
       THEN /\ cache' = Without(cache, threads[th].key)
            /\ curMem' = curMem - SizeOf(EntryOf(cache, threads[th].key).value)
       ELSE UNCHANGED <<cache, curMem>>
    /\ Goto(th, "set_loop")

\* one evaluation of the while condition and, when it holds, one popitem
SetLoop(th) ==
    /\ threads[th].pc = "set_loop"
    /\ IF MustEvict(cache, curMem, SizeOf(threads[th].value), threads[th].t)
       THEN /\ cache' = Tail(cache)
            /\ curMem' = curMem - SizeOf(Head(cache).value)
            /\ UNCHANGED threads
       ELSE /\ Goto(th, "set_insert")
            /\ UNCHANGED <<cache, curMem>>

\* self._cache[key] = (value, current_time)
SetInsert(th) ==
    /\ threads[th].pc = "set_insert"
    /\ cache' = DictStore(cache, threads[th].key, threads[th].value, threads[th].t)
    /\ Goto(th, "set_account")
    /\ UNCHANGED curMem

\* self._current_memory += value_size
SetAccount(th) ==
    /\ threads[th].pc = "set_account"
    /\ curMem' = curMem + SizeOf(threads[th].value)
    /\ Return(th)
    /\ UNCHANGED cache

\* get, entry: if key in self._cache (a miss returns None at once)
BeginGet(th, k) ==
    /\ threads[th].pc = "idle"
    /\ k \in CacheKeys(cache)
    /\ threads' = [threads EXCEPT ![th] =
            [pc |-> "get_read", key |-> k, value |-> NoValue, held |-> NoValue, t |-> 0]]
    /\ UNCHANGED <<cache, curMem>>

\* value, timestamp = self._cache[key]; current_time = time.time(); the
\* expiry test.  KeyError when the other thread removed the key meanwhile.
GetRead(th) ==
    /\ threads[th].pc = "get_read"
    /\ IF threads[th].key \notin CacheKeys(cache)
       THEN Return(th)
       ELSE LET e == EntryOf(cache, threads[th].key)
            IN  threads' = [threads EXCEPT ![th].held = e.value, ![th].t = now,
                    ![th].pc = IF now - e.ts > Ttl THEN "get_expire" ELSE "get_move"]
    /\ UNCHANGED <<cache, curMem>>

\* self._cache.pop(key); self._current_memory -= sys.getsizeof(value)
GetExpire(th) ==
    /\ threads[th].pc = "get_expire"
    /\ IF threads[th].key \notin CacheKeys(cache)
       THEN UNCHANGED <<cache, curMem>>
       ELSE /\ cache' = Without(cache, threads[th].key)
            /\ curMem' = curMem - SizeOf(threads[th].held)
    /\ Return(th)

\* self._cache.move_to_end(key)
GetMove(th) ==
    /\ threads[th].pc = "get_move"
    /\ IF threads[th].key \notin CacheKeys(cache)
       THEN /\ Return(th)
            /\ UNCHANGED cache
       ELSE /\ cache' = Append(Without(cache, threads[th].key),
                               EntryOf(cache, threads[th].key))
            /\ Goto(th, "get_store")
    /\ UNCHANGED curMem

\* self._cache[key] = (value, current_time); return value
GetStore(th) ==
    /\ threads[th].pc = "get_store"
    /\ cache' = DictStore(cache, threads[th].key, threads[th].held, threads[th].t)
    /\ Return(th)
    /\ UNCHANGED curMem

ConcFrame == UNCHANGED <<now, lastOp, vdomVars, lifeVars, renderVars, delegateVars, asyncVars, storeVars>>

NextConc ==
    \/ \E th \in ThreadIds, k \in Keys, v \in ConcValues : BeginSet(th, k, v) /\ ConcFrame
    \/ \E th \in ThreadIds : SetPop(th) /\ ConcFrame
    \/ \E th \in ThreadIds : SetLoop(th) /\ ConcFrame
    \/ \E th \in ThreadIds : SetInsert(th) /\ ConcFrame
    \/ \E th \in ThreadIds : SetAccount(th) /\ ConcFrame
    \/ \E th \in ThreadIds, k \in Keys : BeginGet(th, k) /\ ConcFrame
    \/ \E th \in ThreadIds : GetRead(th) /\ ConcFrame
    \/ \E th \in ThreadIds : GetExpire(th) /\ ConcFrame
    \/ \E th \in ThreadIds : GetMove(th) /\ ConcFrame
    \/ \E th \in ThreadIds : GetStore(th) /\ ConcFrame

SpecConc == InitConc /\ [][NextConc]_vars

\* C24: whenever no thread is inside get or set, the cache holds at most
\* MaxSize entries and the memory counter equals the sizes of the entries
\* held, exactly as after the same calls run one after the other.
C24_QuiescentConsistent ==
    Quiescent => /\ Len(cache) <= MaxSize
                 /\ curMem = SumSizes(cache)
                 /\ curMem <= MaxMemory

-----------------------------------------------------------------------------
(* diff is empty only for equal trees (checked under SpecVdom).            *)

\* C25: for two VNodes that are not structurally equal (a difference in
\* tag, props or children), diff returns a list of at least one patch.
C25_DifferentIsNonEmpty ==
    (DiffDone /\ ~StructEq(oldNode, newNode)) => (raised = "" /\ patches # <<>>)

\* the part of C25 the code keeps: a diff that returns the empty list was
\* given two structurally equal trees
C25_EmptyOnlyIfEqual ==
    (DiffDone /\ raised = "" /\ patches = <<>>) => StructEq(oldNode, newNode)

-----------------------------------------------------------------------------
(* Mounted parents and their children (checked under SpecLife).            *)

\* C26: in every state reached by add_child, remove_child, mount and
\* unmount calls, every component in the children list of a mounted
\* component is mounted.
C26_MountedChildrenMounted ==
    \A p \in Comps : mounted[p] => \A i \in 1..Len(children[p]) : mounted[children[p][i]]

-----------------------------------------------------------------------------
(* What set_prop / set_state leave in the mapping (checked under SpecProp). *)

\* C27: after set_prop(k, v) the props mapping holds v under k, and after
\* set_state(k, v) the state mapping holds v under k, for every key and
\* value, None on a key not yet present included.
C27_SetStoresValue ==
    [][ \A c \in Comps, k \in PropNames, v \in PropValues :
          /\ SetCall("set_prop", c, k, v)' => compProps'[c][k] = v
          /\ SetCall("set_state", c, k, v)' => compState'[c][k] = v
      ]_vars

\* the part of C27 the code keeps: the mapping read with get(k) gives v
C27_GetGivesValue ==
    [][ \A c \in Comps, k \in PropNames, v \in PropValues :
          /\ SetCall("set_prop", c, k, v)' => DictGet(compProps'[c], k) = v
          /\ SetCall("set_state", c, k, v)' => DictGet(compState'[c], k) = v
      ]_vars

-----------------------------------------------------------------------------
(* EventDelegate (events.py).  The handlers registered are two plain ones, *)
(* one that raises, and two that remove themselves from the delegate when  *)
(* they are invoked (delegate.remove(handler) in the handler's body).      *)

PlainHandlers == {"h1", "h2"}

RaisingHandlers == {"boom"}

SelfRemoving == {"once1", "once2"}

DelegateHandlers == PlainHandlers \cup RaisingHandlers \cup SelfRemoving

\* EventDelegate.remove on the list hs
HandlersRemove(hs, h) == IF h \in Range(hs) THEN ListRemove(hs, h) ELSE hs

\* what invoking h does to the list of the delegate it is registered on;
\* the exception of a raising handler is caught and logged by __call__
HandlerBody(h, hs) == IF h \in SelfRemoving THEN HandlersRemove(hs, h) ELSE hs

\* the for loop of __call__: the list iterator holds an index into the live
\* list and stops when the index reaches the list's current length
RECURSIVE FireFrom(_, _, _)
FireFrom(hs, i, invoked) ==
    IF i > Len(hs)
    THEN [handlers |-> hs, invoked |-> invoked]
    ELSE FireFrom(HandlerBody(hs[i], hs), i + 1, Append(invoked, hs[i]))

DelegateFrame == UNCHANGED <<vdomVars, cacheVars, lifeVars, renderVars, concVars, asyncVars, storeVars>>

InitDelegate ==
    /\ VdomIdle
    /\ CacheIdle
    /\ LifeIdle
    /\ RenderIdle
    /\ ConcIdle
    /\ DelegateIdle
    /\ AsyncIdle
    /\ StoreIdle

\* delegate.add(h)
DelegateAdd(h) ==
    /\ dHandlers' = IF h \in Range(dHandlers) THEN dHandlers ELSE Append(dHandlers, h)
    /\ dOp' = "add"
    /\ UNCHANGED <<dStart, dInvoked>>
    /\ DelegateFrame

\* delegate.remove(h)
DelegateRemove(h) ==
    /\ dHandlers' = HandlersRemove(dHandlers, h)
    /\ dOp' = "remove"
    /\ UNCHANGED <<dStart, dInvoked>>
    /\ DelegateFrame

\* delegate.clear()
DelegateClear ==
    /\ dHandlers' = <<>>
    /\ dOp' = "clear"
    /\ UNCHANGED <<dStart, dInvoked>>
    /\ DelegateFrame

\* delegate(*args): one firing
DelegateCall ==
    LET r == FireFrom(dHandlers, 1, <<>>)
    IN  /\ dStart' = dHandlers
        /\ dHandlers' = r.handlers
        /\ dInvoked' = r.invoked
        /\ dOp' = "call"
        /\ DelegateFrame

NextDelegate ==
    \/ \E h \in DelegateHandlers : DelegateAdd(h)
    \/ \E h \in DelegateHandlers : DelegateRemove(h)
    \/ DelegateClear
    \/ DelegateCall

SpecDelegate == InitDelegate /\ [][NextDelegate]_vars

\* C28: one firing invokes every handler registered when it started exactly
\* once, in registration order, self-removing handlers included.
C28_FiringInvokesAll ==
    dOp = "call" => dInvoked = dStart

\* the part of C28 the code keeps: a firing of a delegate without
\* self-removing handlers invokes them all, in order, a raising one included
C28_FiringWithoutRemoval ==
    (dOp = "call" /\ Range(dStart) \cap SelfRemoving = {}) => dInvoked = dStart

-----------------------------------------------------------------------------
(* ComponentCache of async_components.py: a dict _cache of (value,         *)
(* expire_time) and a dict _access_times, written and deleted together, so *)
(* one sequence of [key, value, expire, access] in insertion order stands  *)
(* for both.  maxsize is MaxSize and the ttl argument of set is Ttl.       *)

AsyncValues == {"v1", "v2"}

AsyncEntry(k, v, e, a) == [key |-> k, value |-> v, expire |-> e, access |-> a]

AsyncOp(op, k, v, ret) == [op |-> op, key |-> k, value |-> v, ret |-> ret]

AsyncKeys(c) == {c[i].key : i \in 1..Len(c)}

AsyncWithout(c, k) == SelectSeq(c, LAMBDA e : e.key # k)

\* d[k] = x on a dict: in place for a key of the dict, at the end otherwise
AsyncStore(c, e) ==
    IF e.key \in AsyncKeys(c)
    THEN [i \in 1..Len(c) |-> IF c[i].key = e.key THEN e ELSE c[i]]
    ELSE Append(c, e)

\* min(self._access_times.items(), key=lambda x: x[1])[0]: the first key,
\* in dict order, among those of the smallest access time
OldestKey(c) ==
    LET i == CHOOSE n \in 1..Len(c) :
                /\ \A m \in 1..Len(c) : c[n].access <= c[m].access
                /\ \A m \in 1..(n - 1) : c[m].access > c[n].access
    IN  c[i].key

\* the cache after set(k, v) at time t
AsyncCacheSet(c, k, v, t) ==
    LET c1 == IF Len(c) >= MaxSize THEN AsyncWithout(c, OldestKey(c)) ELSE c
    IN  AsyncStore(c1, AsyncEntry(k, v, t + Ttl, t))

AsyncFrame ==
    UNCHANGED <<vdomVars, cacheVars, lifeVars, renderVars, concVars, delegateVars, storeVars>>

InitAsync ==
    /\ VdomIdle
    /\ CacheIdle
    /\ LifeIdle
    /\ RenderIdle
    /\ ConcIdle
    /\ DelegateIdle
    /\ AsyncIdle
    /\ StoreIdle

\* cache.get(k)
AsyncGet(k) ==
    /\ IF k \in AsyncKeys(aCache)
       THEN LET e == aCache[CHOOSE i \in 1..Len(aCache) : aCache[i].key = k]
            IN  IF e.expire > aNow
                THEN /\ aCache' = AsyncStore(aCache, [e EXCEPT !.access = aNow])
                     /\ aOp' = AsyncOp("get", k, NoValue, e.value)
                ELSE /\ aCache' = AsyncWithout(aCache, k)
                     /\ aOp' = AsyncOp("get", k, NoValue, NoValue)
       ELSE /\ aOp' = AsyncOp("get", k, NoValue, NoValue)
            /\ UNCHANGED aCache
    /\ UNCHANGED aNow
    /\ AsyncFrame

\* cache.set(k, v)
AsyncSet(k, v) ==
    /\ aCache' = AsyncCacheSet(aCache, k, v, aNow)
    /\ aOp' = AsyncOp("set", k, v, NoValue)
    /\ UNCHANGED aNow
    /\ AsyncFrame

\* cache.clear()
AsyncClear ==
    /\ aCache' = <<>>
    /\ aOp' = AsyncOp("clear", "", NoValue, NoValue)
    /\ UNCHANGED aNow
    /\ AsyncFrame

\* the clock advances
AsyncTick ==
    /\ aNow < MaxTime
    /\ aNow' = aNow + 1
    /\ aOp' = AsyncOp("tick", "", NoValue, NoValue)
    /\ UNCHANGED aCache
    /\ AsyncFrame

NextAsync ==
    \/ \E k \in Keys : AsyncGet(k)
    \/ \E k \in Keys, v \in AsyncValues : AsyncSet(k, v)
    \/ AsyncClear
    \/ AsyncTick

SpecAsync == InitAsync /\ [][NextAsync]_vars

\* C29: set(k, v) for a key already in the cache stores v under k and
\* removes no other entry, also when the cache holds maxsize entries: every
\* key present before the call is present after it.
C29_SetExistingKeepsKeys ==
    [][ \A k \in Keys, v \in AsyncValues :
          (aOp' = AsyncOp("set", k, v, NoValue) /\ k \in AsyncKeys(aCache)) =>
              /\ AsyncKeys(aCache) \subseteq AsyncKeys(aCache')
              /\ \E i \in 1..Len(aCache') : aCache'[i].key = k /\ aCache'[i].value = v
      ]_vars

\* the part of C29 the code keeps: below maxsize entries, set of a present
\* key replaces its value and leaves every key in place
C29_SetExistingBelowMax ==
    [][ \A k \in Keys, v \in AsyncValues :
          (/\ aOp' = AsyncOp("set", k, v, NoValue)
           /\ k \in AsyncKeys(aCache)
           /\ Len(aCache) < MaxSize) =>
              /\ AsyncKeys(aCache) = AsyncKeys(aCache')
              /\ \E i \in 1..Len(aCache') : aCache'[i].key = k /\ aCache'[i].value = v
      ]_vars

-----------------------------------------------------------------------------
(* Store (state.py) used from one thread.  set writes the path "a.b" and   *)
(* notifies the callbacks subscribed at "a.b", then those at the parent    *)
(* path "a", all inside "with self._lock"; _lock is a threading.Lock,      *)
(* which is not reentrant.  The callbacks subscribed are a plain one, one  *)
(* that raises, and three that call set, subscribe or unsubscribe on the   *)
(* same store.                                                             *)

MaxSubscribers == 2

StoreValues == {"v1", "v2"}

Reentrant == {"setter", "subscriber", "unsubscriber"}

Callbacks == {"plain", "boom"} \cup Reentrant

StoreOp(op, path, arg, ret) == [op |-> op, path |-> path, arg |-> arg, ret |-> ret]

\* _lock.acquire(): a thread that asks for the lock it already holds waits
\* for ever
LockAcquire(held) == IF held THEN "blocked" ELSE "returned"

\* one callback invoked by _notify_subscribers, the lock being held: a
\* reentrant one starts with "with self._lock" of set / subscribe /
\* unsubscribe, a raising one ends the notification with its exception
Callback(cb, r) ==
    CASE cb \in Reentrant -> [r EXCEPT !.ret = LockAcquire(TRUE)]
      [] cb = "boom"      -> [r EXCEPT !.ret = "raised"]
      [] OTHER            -> r

\* the for loops of _notify_subscribers over the list cbs
RECURSIVE NotifyEach(_, _, _)
NotifyEach(cbs, i, r) ==
    IF r.ret # "returned" \/ i > Len(cbs)
    THEN r
    ELSE NotifyEach(cbs, i + 1, Callback(cbs[i], [r EXCEPT !.notified = Append(@, cbs[i])]))

\* _notify_subscribers for a change at "a.b": the callbacks of the exact
\* path, then those of the parent path "a"
NotifySubscribers(subs) ==
    NotifyEach(subs["a.b"] \o subs["a"], 1, [notified |-> <<>>, ret |-> "returned"])

\* the thread is not stuck inside a call
StoreRunning == sOp.ret # "blocked"

StoreFrame ==
    UNCHANGED <<vdomVars, cacheVars, lifeVars, renderVars, concVars, delegateVars, asyncVars>>

InitStore ==
    /\ VdomIdle
    /\ CacheIdle
    /\ LifeIdle
    /\ RenderIdle
    /\ ConcIdle
    /\ DelegateIdle
    /\ AsyncIdle
    /\ StoreIdle

\* store.set("a.b", v): the with statement releases the lock when its body
\* returns or raises, and never when the body does not come back
StoreSet(v) ==
    /\ StoreRunning
    /\ LockAcquire(sLock) = "returned"
    /\ LET r == NotifySubscribers(sSubs)
       IN  /\ sState' = v
           /\ sNotified' = r.notified
           /\ sLock' = (r.ret = "blocked")
           /\ sOp' = StoreOp("set", "a.b", v, r.ret)
    /\ UNCHANGED sSubs
    /\ StoreFrame

\* store.subscribe(p, cb)
StoreSubscribe(p, cb) ==
    /\ StoreRunning
    /\ LockAcquire(sLock) = "returned"
    /\ Len(sSubs[p]) < MaxSubscribers
    /\ sSubs' = [sSubs EXCEPT ![p] = Append(@, cb)]
    /\ sOp' = StoreOp("subscribe", p, cb, "returned")
    /\ UNCHANGED <<sState, sLock, sNotified>>
    /\ StoreFrame

\* store.unsubscribe(p, cb) of a callback subscribed at p
StoreUnsubscribe(p, cb) ==
    /\ StoreRunning
    /\ LockAcquire(sLock) = "returned"
    /\ cb \in Range(sSubs[p])
    /\ sSubs' = [sSubs EXCEPT ![p] = ListRemove(@, cb)]
    /\ sOp' = StoreOp("unsubscribe", p, cb, "returned")
    /\ UNCHANGED <<sState, sLock, sNotified>>
    /\ StoreFrame

NextStore ==
    \/ \E v \in StoreValues : StoreSet(v)
    \/ \E p \in SubPaths, cb \in Callbacks : StoreSubscribe(p, cb)
    \/ \E p \in SubPaths, cb \in Callbacks : StoreUnsubscribe(p, cb)

SpecStore == InitStore /\ [][NextStore]_vars

\* C30: every set returns (or raises) and leaves the lock released, also
\* when a callback it notifies calls set, subscribe or unsubscribe on the
\* same store.
C30_SetReturnsUnlocked ==
    sOp.op = "set" => (sOp.ret # "blocked" /\ ~sLock)

\* the part of C30 the code keeps: a set that notifies no callback calling
\* back into the store ends with the lock released, a raising callback
\* included
C30_SetWithoutReentry ==
    (sOp.op = "set" /\ Range(sSubs["a.b"] \o sSubs["a"]) \cap Reentrant = {}) =>
        (sOp.ret # "blocked" /\ ~sLock)

====
